---------------------------- MODULE Spec2Model ----------------------------
(***************************************************************************)
(* Model of the track verification and enrichment service of              *)
(* src/api_integrations.py: the three platform clients (SpotifyAPI,       *)
(* SoundCloudAPI, YouTubeAPI) and TrackVerificationService.               *)
(*                                                                         *)
(* Python strings that the code inspects character by character (URLs,    *)
(* ids) are sequences of one-character strings.  Optional values are      *)
(* records [kind |-> "none"] / [kind |-> "some", v |-> x].  JSON numbers   *)
(* that may be null are tagged records (JInt, JNumStr, JNull).             *)
(***************************************************************************)
EXTENDS Integers, Sequences, FiniteSets, Bags, TLC

(***************************************************************************)
(* Bounds of the model.                                                    *)
(***************************************************************************)
\* Results a list search returns after its first one go up to this many.
MaxExtra == 2
\* Counters (plays, likes, views) of the first result range over 1..MaxMetric.
MaxMetric == 2
\* time.time() readings range over 1..MaxTime.
MaxTime == 2

(***************************************************************************)
(* Characters and Python string operations.                                *)
(***************************************************************************)
UpperLetters == <<"A","B","C","D","E","F","G","H","I","J","K","L","M","N","O","P","Q","R","S","T","U","V","W","X","Y","Z">>
LowerLetters == <<"a","b","c","d","e","f","g","h","i","j","k","l","m","n","o","p","q","r","s","t","u","v","w","x","y","z">>
Digits == <<"0","1","2","3","4","5","6","7","8","9">>

Range(f) == {f[i] : i \in DOMAIN f}

\* The character class [a-zA-Z0-9].
AlnumChars == Range(UpperLetters) \cup Range(LowerLetters) \cup Range(Digits)
\* The character class [0-9A-Za-z_-].
VideoIdChars == AlnumChars \cup {"_", "-"}

\* str.lower() on one character: an upper-case letter maps to its lower-case
\* letter, every other character to itself.
LowerOf ==
    [c \in Range(UpperLetters) |->
        LowerLetters[CHOOSE i \in DOMAIN UpperLetters : UpperLetters[i] = c]]
LowerChar(c) == IF c \in DOMAIN LowerOf THEN LowerOf[c] ELSE c

\* str.lower()
PyLower(s) == [i \in 1..Len(s) |-> LowerChar(s[i])]

\* m occurs in s at position i.
StartsAt(s, m, i) ==
    /\ i >= 1
    /\ i + Len(m) - 1 <= Len(s)
    /\ \A k \in 1..Len(m) : s[i + k - 1] = m[k]

\* Python's `m in s` for strings.
Contains(s, m) == \E i \in 1..Len(s) : StartsAt(s, m, i)

Min(S) == CHOOSE x \in S : \A y \in S : x <= y
Max(S) == CHOOSE x \in S : \A y \in S : x >= y

None == [kind |-> "none"]
Some(x) == [kind |-> "some", v |-> x]

(***************************************************************************)
(* The markers and regular expressions of the URL handling.                *)
(***************************************************************************)
MarkerSpotify == <<"s","p","o","t","i","f","y",".","c","o","m">>
MarkerSoundCloud == <<"s","o","u","n","d","c","l","o","u","d",".","c","o","m">>
MarkerYouTube == <<"y","o","u","t","u","b","e",".","c","o","m">>
MarkerYouTuBe == <<"y","o","u","t","u",".","b","e">>
TrackSlash == <<"t","r","a","c","k","/">>
VEquals == <<"v","=">>
Slash == <<"/">>
EmbedSlash == <<"e","m","b","e","d","/">>
VSlash == <<"v","/">>

\* Width of a YouTube video id in the patterns of extract_video_id.
VideoIdLen == 11

\* re.search(r'track/([a-zA-Z0-9]+)', s): the leftmost position where
\* 'track/' is followed by an alphanumeric character; group 1 is the longest
\* run of alphanumeric characters from there (the + is greedy).
SpotifyIdSearch(s) ==
    LET starts == {i \in 1..Len(s) :
                      /\ StartsAt(s, TrackSlash, i)
                      /\ i + Len(TrackSlash) <= Len(s)
                      /\ s[i + Len(TrackSlash)] \in AlnumChars}
    IN  IF starts = {} THEN None
        ELSE LET b == Min(starts) + Len(TrackSlash)
                 e == Max({j \in b..Len(s) :
                              \A k \in b..j : s[k] \in AlnumChars})
             IN  Some(SubSeq(s, b, e))

\* A run of VideoIdLen characters of [0-9A-Za-z_-] starts at position b.
VideoIdAt(s, b) ==
    /\ b >= 1
    /\ b + VideoIdLen - 1 <= Len(s)
    /\ \A k \in b..(b + VideoIdLen - 1) : s[k] \in VideoIdChars

\* re.search of a pattern (?:p1|p2|...)([0-9A-Za-z_-]{11}) in s, prefixes is
\* the sequence of the alternatives: the leftmost position where some
\* alternative followed by an id matches, alternatives tried in order.
VideoIdSearch(s, prefixes) ==
    LET hit(i, p) == StartsAt(s, prefixes[p], i)
                        /\ VideoIdAt(s, i + Len(prefixes[p]))
        starts == {i \in 1..Len(s) : \E p \in DOMAIN prefixes : hit(i, p)}
    IN  IF starts = {} THEN None
        ELSE LET i == Min(starts)
                 p == Min({q \in DOMAIN prefixes : hit(i, q)})
                 b == i + Len(prefixes[p])
             IN  Some(SubSeq(s, b, b + VideoIdLen - 1))

\* YouTubeAPI.extract_video_id: the three patterns in order, first match wins.
extract_video_id(url) ==
    LET patterns == << <<VEquals, Slash>>, <<EmbedSlash>>, <<VSlash>> >>
        matching == {n \in DOMAIN patterns :
                        VideoIdSearch(url, patterns[n]).kind = "some"}
    IN  IF matching = {} THEN None
        ELSE VideoIdSearch(url, patterns[Min(matching)])

(***************************************************************************)
(* JSON values and the Python operations applied to them.                  *)
(***************************************************************************)
JNull == [t |-> "null"]
JInt(n) == [t |-> "int", v |-> n]
\* The decimal string of n, as the YouTube API writes its counters.
JNumStr(n) == [t |-> "str", v |-> n]

\* dict.get(k, default)
Get(d, k, default) == IF k \in DOMAIN d THEN d[k] ELSE default

\* int(x): the number of an int or of a decimal string; TypeError on None.
PyInt(x) ==
    IF x.t \in {"int", "str"} THEN [ok |-> TRUE, v |-> x.v]
    ELSE [ok |-> FALSE, v |-> 0]

\* total + x for an int total: TypeError unless x is an int.
PyAdd(total, x) ==
    IF x.t = "int" THEN [ok |-> TRUE, v |-> total + x.v]
    ELSE [ok |-> FALSE, v |-> total]

\* ','.join(ids)
RECURSIVE JoinIds(_)
JoinIds(ids) ==
    IF ids = <<>> THEN <<>>
    ELSE IF Len(ids) = 1 THEN ids[1]
    ELSE ids[1] \o <<",">> \o JoinIds(Tail(ids))

(***************************************************************************)
(* Outbound requests.  env maps each kind of request to the response the   *)
(* remote side gives: [kind |-> "error"] stands for a network error, a     *)
(* timeout, a non-2xx status or an undecodable body (the call raises),     *)
(* [kind |-> "ok", ...] carries the decoded payload, and NotAsked marks a   *)
(* request the run never issues.                                           *)
(***************************************************************************)
ReqNames == {"spotify.search", "spotify.track", "spotify.audio_features",
             "soundcloud.tracks", "soundcloud.resolve",
             "youtube.search", "youtube.videos.statistics",
             "youtube.videos.snippet"}
NotAsked == [kind |-> "unasked"]
Failed == [kind |-> "error"]
NoEnv == [r \in ReqNames |-> NotAsked]

Request(name, arg) == [req |-> name, arg |-> arg]

\* The timeout argument of the requests.get calls, in seconds.
TimeoutSeconds == 10

\* The timeout a request is made with: every requests.get call passes
\* timeout=10; the calls made through the spotipy client pass none, and the
\* client is constructed without one.
RequestTimeout(name) ==
    IF name \in {"spotify.search", "spotify.track", "spotify.audio_features"}
    THEN None
    ELSE Some(TimeoutSeconds)

(***************************************************************************)
(* SpotifyAPI.  sp is the client object: client_id and client_secret say   *)
(* whether the credential is non-empty, client whether self.client is set. *)
(***************************************************************************)
\* What a try block did: it raised exc ("" when it ran to its end and gave
\* ret), having issued the requests net.
Raised(exc, net) == [exc |-> exc, ret |-> None, net |-> net]
Done(ret, net) == [exc |-> "", ret |-> ret, net |-> net]

\* What a method did as its caller sees it.
Return(ret, net) == [outcome |-> "return", ret |-> ret, net |-> net]

\* Mutant: the handler catches the errors of the request only, an exception
\* raised while the payload is read leaves the method.
ExceptRequestException(body, empty) ==
    IF body.exc = "" THEN Return(body.ret, body.net)
    ELSE IF body.exc = "RequestException" THEN Return(empty, body.net)
    ELSE [outcome |-> "raise", ret |-> empty, net |-> body.net]

\* try: body, except Exception: log and give the empty value.
ExceptException(body, empty) ==
    Return(IF body.exc = "" THEN body.ret ELSE empty, body.net)

\* The fields search_track reads from an item by subscript.
SpotifyItemKeys == {"id", "name", "popularity"}

\* The try block of SpotifyAPI.search_track; with no item it runs to its
\* end and the method returns None.
search_track_try(artist, title, env) ==
    LET resp == env["spotify.search"]
        net == <<Request("spotify.search", <<artist, title>>)>>
    IN  IF resp.kind # "ok" THEN Raised("SpotifyException", net)
        ELSE IF resp.items = <<>> THEN Done(None, net)
        ELSE IF ~(SpotifyItemKeys \subseteq DOMAIN resp.items[1])
        THEN Raised("KeyError", net)
        ELSE Done(Some([id |-> resp.items[1].id,
                        name |-> resp.items[1].name,
                        popularity |-> resp.items[1].popularity]), net)

\* SpotifyAPI.search_track
search_track(sp, artist, title, env) ==
    IF ~sp.client THEN Return(None, <<>>)
    ELSE ExceptException(search_track_try(artist, title, env), None)

\* The try block of SpotifyAPI.get_track_details.
get_track_details_try(track_id, env) ==
    LET r1 == env["spotify.track"]
        r2 == env["spotify.audio_features"]
        n1 == <<Request("spotify.track", track_id)>>
        n2 == n1 \o <<Request("spotify.audio_features", track_id)>>
    IN  IF r1.kind # "ok" THEN Raised("SpotifyException", n1)
        ELSE IF r2.kind # "ok" THEN Raised("SpotifyException", n2)
        ELSE IF r2.list = <<>> THEN Raised("IndexError", n2)
        ELSE Done(Some([id |-> track_id,
                        name |-> r1.name,
                        popularity |-> r1.popularity,
                        audio_features |-> r2.list[1]]), n2)

\* SpotifyAPI.get_track_details
get_track_details(sp, track_id, env) ==
    IF ~sp.client THEN Return(None, <<>>)
    ELSE ExceptException(get_track_details_try(track_id, env), None)

(***************************************************************************)
(* SoundCloudAPI.                                                          *)
(***************************************************************************)
\* The fields read from a SoundCloud track by subscript.
SoundCloudTrackKeys == {"id", "title", "playback_count", "likes_count"}

SoundCloudTrack(track) ==
    [id |-> track.id,
     title |-> track.title,
     playback_count |-> track.playback_count,
     likes_count |-> track.likes_count,
     genre |-> Get(track, "genre", "")]

\* The try block of SoundCloudAPI.search_tracks: the request and the
\* reshaping of its collection.
search_tracks_try(query, env) ==
    LET resp == env["soundcloud.tracks"]
        net == <<Request("soundcloud.tracks", query)>>
    IN  IF resp.kind # "ok" THEN Raised("RequestException", net)
        ELSE IF \E i \in DOMAIN resp.collection :
                   ~(SoundCloudTrackKeys \subseteq DOMAIN resp.collection[i])
        THEN Raised("KeyError", net)
        ELSE Done([i \in DOMAIN resp.collection |->
                      SoundCloudTrack(resp.collection[i])], net)

\* The try statement of SoundCloudAPI.search_tracks: any exception gives [].
search_tracks_request(query, env) ==
    ExceptException(search_tracks_try(query, env), <<>>)

\* Mutant: the credential check is missing.
search_tracks_unguarded(sc, query, env) == search_tracks_request(query, env)

\* SoundCloudAPI.search_tracks
search_tracks(sc, query, env) ==
    IF ~sc.client_id THEN Return(<<>>, <<>>)
    ELSE search_tracks_request(query, env)

\* The try block of SoundCloudAPI.get_track_by_url.
get_track_by_url_try(url, env) ==
    LET resp == env["soundcloud.resolve"]
        net == <<Request("soundcloud.resolve", url)>>
    IN  IF resp.kind # "ok" THEN Raised("RequestException", net)
        ELSE IF ~(SoundCloudTrackKeys \subseteq DOMAIN resp.track)
        THEN Raised("KeyError", net)
        ELSE Done(Some(SoundCloudTrack(resp.track)), net)

\* SoundCloudAPI.get_track_by_url
get_track_by_url(sc, url, env) ==
    IF ~sc.client_id THEN Return(None, <<>>)
    ELSE ExceptException(get_track_by_url_try(url, env), None)

(***************************************************************************)
(* YouTubeAPI.                                                             *)
(***************************************************************************)
WatchUrlPrefix == <<"h","t","t","p","s",":","/","/","w","w","w",".","y","o","u","t","u","b","e",".","c","o","m","/","w","a","t","c","h","?","v","=">>

\* The items of a statistics response to a request for video_ids.  The
\* response says which of the requested videos it covers ("all", "rest":
\* all but the first, "none") and the statistics object it gives for them.
StatisticsItems(resp, video_ids) ==
    LET covered == CASE resp.covers = "all" -> video_ids
                     [] resp.covers = "rest" ->
                            IF video_ids = <<>> THEN <<>> ELSE Tail(video_ids)
                     [] OTHER -> <<>>
    IN  [i \in DOMAIN covered |-> [id |-> covered[i], statistics |-> resp.statistics]]

\* The try block of YouTubeAPI.get_video_details: a mapping (a function on
\* the ids found); int() of a null counter raises.
get_video_details_try(video_ids, env) ==
    LET resp == env["youtube.videos.statistics"]
        net == <<Request("youtube.videos.statistics", JoinIds(video_ids))>>
        items == StatisticsItems(resp, video_ids)
        view(i) == PyInt(Get(items[i].statistics, "viewCount", JInt(0)))
        like(i) == PyInt(Get(items[i].statistics, "likeCount", JInt(0)))
        comment(i) == PyInt(Get(items[i].statistics, "commentCount", JInt(0)))
    IN  IF resp.kind # "ok" THEN Raised("RequestException", net)
        ELSE IF \E i \in DOMAIN items : ~view(i).ok \/ ~like(i).ok \/ ~comment(i).ok
        THEN Raised("TypeError", net)
        ELSE Done([id \in {items[i].id : i \in DOMAIN items} |->
                      LET i == CHOOSE j \in DOMAIN items :
                                  /\ items[j].id = id
                                  /\ \A k \in DOMAIN items :
                                        items[k].id = id => k <= j
                      IN  [viewCount |-> JInt(view(i).v),
                           likeCount |-> JInt(like(i).v),
                           commentCount |-> JInt(comment(i).v)]], net)

\* YouTubeAPI.get_video_details
get_video_details(yt, video_ids, env) ==
    IF ~yt.api_key \/ video_ids = <<>> THEN Return(<<>>, <<>>)
    ELSE ExceptException(get_video_details_try(video_ids, env), <<>>)

\* The fields search_videos reads from a search item by subscript.
YouTubeItemKeys == {"videoId", "title"}

\* Mutant: a search item without statistics is left out of the list.
videos_of_with_details(items, query, det) ==
    LET kept == SelectSeq(items, LAMBDA item : "videoId" \in DOMAIN item
                                              /\ item.videoId \in DOMAIN det.ret)
    IN  [exc |-> IF \E i \in DOMAIN items : ~(YouTubeItemKeys \subseteq DOMAIN items[i])
                 THEN "KeyError" ELSE "",
         ret |-> IF \E i \in DOMAIN items : ~(YouTubeItemKeys \subseteq DOMAIN items[i])
                 THEN <<>>
                 ELSE [i \in DOMAIN kept |->
                          [id |-> kept[i].videoId,
                           title |-> kept[i].title,
                           url |-> WatchUrlPrefix \o kept[i].videoId,
                           view_count |-> det.ret[kept[i].videoId].viewCount,
                           like_count |-> det.ret[kept[i].videoId].likeCount,
                           comment_count |-> det.ret[kept[i].videoId].commentCount]],
         net |-> <<Request("youtube.search", query)>> \o det.net]

\* The list search_videos builds from the search items and the mapping
\* det.ret that get_video_details gave for their ids; a search item without
\* a title raises.
videos_of(items, query, det) ==
    [exc |-> IF \E i \in DOMAIN items : ~(YouTubeItemKeys \subseteq DOMAIN items[i])
             THEN "KeyError" ELSE "",
     ret |-> IF \E i \in DOMAIN items : ~(YouTubeItemKeys \subseteq DOMAIN items[i])
             THEN <<>>
             ELSE [i \in DOMAIN items |->
                      [id |-> items[i].videoId,
                       title |-> items[i].title,
                       url |-> WatchUrlPrefix \o items[i].videoId,
                       view_count |-> Get(Get(det.ret, items[i].videoId, <<>>),
                                          "viewCount", JInt(0)),
                       like_count |-> Get(Get(det.ret, items[i].videoId, <<>>),
                                          "likeCount", JInt(0)),
                       comment_count |-> Get(Get(det.ret, items[i].videoId, <<>>),
                                             "commentCount", JInt(0))]],
     net |-> <<Request("youtube.search", query)>> \o det.net]

\* The try block of YouTubeAPI.search_videos.
search_videos_try(yt, query, env) ==
    LET resp == env["youtube.search"]
        n1 == <<Request("youtube.search", query)>>
    IN  IF resp.kind # "ok" THEN Raised("RequestException", n1)
        ELSE IF \E i \in DOMAIN resp.items : "videoId" \notin DOMAIN resp.items[i]
        THEN Raised("KeyError", n1)
        ELSE IF resp.items = <<>> THEN Done(<<>>, n1)
        ELSE videos_of(resp.items, query,
                       get_video_details(yt,
                           [i \in DOMAIN resp.items |-> resp.items[i].videoId],
                           env))

\* YouTubeAPI.search_videos
search_videos(yt, query, env) ==
    IF ~yt.api_key THEN Return(<<>>, <<>>)
    ELSE ExceptException(search_videos_try(yt, query, env), <<>>)

\* The try block of get_video_by_url for video_id, from the mapping det.ret
\* of get_video_details and the snippet response resp.
video_of(url, video_id, det, resp) ==
    IF DOMAIN det.ret = {} THEN Done(None, det.net)
    ELSE [exc |-> IF resp.kind # "ok" THEN "RequestException"
                  ELSE IF resp.items = <<>> THEN ""
                  ELSE IF "title" \notin DOMAIN resp.items[1] THEN "KeyError"
                  ELSE IF video_id \notin DOMAIN det.ret THEN "KeyError"
                  ELSE "",
          ret |-> IF resp.kind # "ok" THEN None
                  ELSE IF resp.items = <<>> THEN None
                  ELSE IF "title" \notin DOMAIN resp.items[1] THEN None
                  ELSE IF video_id \notin DOMAIN det.ret THEN None
                  ELSE Some([id |-> video_id,
                             title |-> resp.items[1].title,
                             url |-> url,
                             view_count |-> Get(det.ret[video_id], "viewCount", JInt(0)),
                             like_count |-> Get(det.ret[video_id], "likeCount", JInt(0)),
                             comment_count |-> Get(det.ret[video_id], "commentCount", JInt(0))]),
          net |-> det.net \o <<Request("youtube.videos.snippet", video_id)>>]

\* get_video_by_url after extract_video_id gave found.
video_by_id(yt, url, found, env) ==
    IF found.kind = "none" THEN Return(None, <<>>)
    ELSE ExceptException(
             video_of(url, found.v, get_video_details(yt, <<found.v>>, env),
                      env["youtube.videos.snippet"]),
             None)

\* YouTubeAPI.get_video_by_url
get_video_by_url(yt, url, env) == video_by_id(yt, url, extract_video_id(url), env)

(***************************************************************************)
(* TrackVerificationService.  sp, sc, yt are its three clients.  Every     *)
(* operation yields its result together with the client methods it called  *)
(* (calls) and the outbound requests these issued (net), in order.         *)
(***************************************************************************)
Call(client, method, arg) == [client |-> client, method |-> method, arg |-> arg]

Verified(platform, data) == [platform |-> platform, verified |-> TRUE, data |-> data]

\* The result of a verify_*_url method that made the lookup call and got r
\* from the client.
lookup_result(platform, call, r) ==
    [ret |-> IF r.ret.kind = "some" THEN Some(Verified(platform, r.ret.v)) ELSE None,
     calls |-> <<call>>,
     net |-> r.net]

\* verify_spotify_url after the search for the track id gave track_id_match.
spotify_lookup(sp, track_id_match, env) ==
    IF track_id_match.kind = "none"
    THEN [ret |-> None, calls |-> <<>>, net |-> <<>>]
    ELSE lookup_result("spotify",
                       Call("spotify", "get_track_details", track_id_match.v),
                       get_track_details(sp, track_id_match.v, env))

\* TrackVerificationService.verify_spotify_url
verify_spotify_url(sp, url, env) == spotify_lookup(sp, SpotifyIdSearch(url), env)

\* Mutant: the result is labelled with the wrong platform.
verify_soundcloud_url_mislabelled(sc, url, env) ==
    lookup_result("spotify", Call("soundcloud", "get_track_by_url", url),
                  get_track_by_url(sc, url, env))

\* TrackVerificationService.verify_soundcloud_url
verify_soundcloud_url(sc, url, env) ==
    lookup_result("soundcloud", Call("soundcloud", "get_track_by_url", url),
                  get_track_by_url(sc, url, env))

\* Mutant: a lookup that found nothing is made a second time.
verify_youtube_url_retry(yt, url, env) ==
    LET r == get_video_by_url(yt, url, env)
        call == Call("youtube", "get_video_by_url", url)
    IN  IF r.ret.kind = "some" THEN lookup_result("youtube", call, r)
        ELSE [ret |-> None, calls |-> <<call, call>>, net |-> r.net \o r.net]

\* TrackVerificationService.verify_youtube_url
verify_youtube_url(yt, url, env) ==
    lookup_result("youtube", Call("youtube", "get_video_by_url", url),
                  get_video_by_url(yt, url, env))

\* Mutant: the YouTube markers are tried before the SoundCloud marker.
verify_track_url_youtube_first(sp, sc, yt, original, env) ==
    LET url == PyLower(original)
    IN  IF Contains(url, MarkerSpotify) THEN verify_spotify_url(sp, url, env)
        ELSE IF Contains(url, MarkerYouTube) \/ Contains(url, MarkerYouTuBe)
        THEN verify_youtube_url(yt, url, env)
        ELSE IF Contains(url, MarkerSoundCloud) THEN verify_soundcloud_url(sc, url, env)
        ELSE [ret |-> None, calls |-> <<>>, net |-> <<>>]

\* Mutant: a URL with no marker is tried as a YouTube URL.
verify_track_url_fallback(sp, sc, yt, original, env) ==
    LET url == PyLower(original)
    IN  IF Contains(url, MarkerSpotify) THEN verify_spotify_url(sp, url, env)
        ELSE IF Contains(url, MarkerSoundCloud) THEN verify_soundcloud_url(sc, url, env)
        ELSE verify_youtube_url(yt, url, env)

\* TrackVerificationService.verify_track_url: the parameter is rebound to
\* its lower-cased form before anything else reads it.
verify_track_url(sp, sc, yt, original, env) ==
    LET url == PyLower(original)
    IN  IF Contains(url, MarkerSpotify) THEN verify_spotify_url(sp, url, env)
        ELSE IF Contains(url, MarkerSoundCloud) THEN verify_soundcloud_url(sc, url, env)
        ELSE IF Contains(url, MarkerYouTube) \/ Contains(url, MarkerYouTuBe)
        THEN verify_youtube_url(yt, url, env)
        ELSE [ret |-> None, calls |-> <<>>, net |-> <<>>]

\* f"{artist} {title}"
Query(artist, title) == <<artist, " ", title>>

\* The dict cross_platform_search returns from what the three client calls
\* gave, with the calls made and the requests these issued.
search_results(artist, title, spotify_result, soundcloud_results, youtube_results) ==
    [ret |-> [spotify |-> spotify_result.ret,
              soundcloud |-> soundcloud_results.ret,
              youtube |-> youtube_results.ret],
     calls |-> <<Call("spotify", "search_track", <<artist, title>>),
                 Call("soundcloud", "search_tracks", Query(artist, title)),
                 Call("youtube", "search_videos", Query(artist, title))>>,
     net |-> spotify_result.net \o soundcloud_results.net \o youtube_results.net]

\* Mutant: a failed SoundCloud request ends the search, the YouTube slot
\* keeps its initial [].
cross_platform_search_abort(sp, sc, yt, artist, title, env) ==
    LET spotify_result == search_track(sp, artist, title, env)
        soundcloud_results == search_tracks(sc, Query(artist, title), env)
        aborted == /\ soundcloud_results.net # <<>>
                   /\ env["soundcloud.tracks"].kind # "ok"
        youtube_results == IF aborted THEN [ret |-> <<>>, net |-> <<>>]
                           ELSE search_videos(yt, Query(artist, title), env)
    IN  [ret |-> [spotify |-> spotify_result.ret,
                  soundcloud |-> soundcloud_results.ret,
                  youtube |-> youtube_results.ret],
         calls |-> <<Call("spotify", "search_track", <<artist, title>>),
                     Call("soundcloud", "search_tracks", Query(artist, title))>>
                   \o IF aborted THEN <<>>
                      ELSE <<Call("youtube", "search_videos", Query(artist, title))>>,
         net |-> spotify_result.net \o soundcloud_results.net \o youtube_results.net]

\* Mutant: a SoundCloud search that gave nothing is made a second time.
cross_platform_search_retry(sp, sc, yt, artist, title, env) ==
    LET spotify_result == search_track(sp, artist, title, env)
        soundcloud_results == search_tracks(sc, Query(artist, title), env)
        youtube_results == search_videos(yt, Query(artist, title), env)
        again == soundcloud_results.ret = <<>>
        soundcloud_call == Call("soundcloud", "search_tracks", Query(artist, title))
    IN  [ret |-> [spotify |-> spotify_result.ret,
                  soundcloud |-> soundcloud_results.ret,
                  youtube |-> youtube_results.ret],
         calls |-> <<Call("spotify", "search_track", <<artist, title>>), soundcloud_call>>
                   \o (IF again THEN <<soundcloud_call>> ELSE <<>>)
                   \o <<Call("youtube", "search_videos", Query(artist, title))>>,
         net |-> spotify_result.net \o soundcloud_results.net
                 \o (IF again THEN soundcloud_results.net ELSE <<>>)
                 \o youtube_results.net]

\* TrackVerificationService.cross_platform_search
cross_platform_search(sp, sc, yt, artist, title, env) ==
    search_results(artist, title,
                   search_track(sp, artist, title, env),
                   search_tracks(sc, Query(artist, title), env),
                   search_videos(yt, Query(artist, title), env))

\* Mutant: the counters of a list slot replace the totals.
AddListSlot_overwrite(acc, data, plays_key, likes_key) ==
    IF ~acc.ok \/ data = <<>> THEN acc
    ELSE LET plays == PyAdd(0, Get(data[1], plays_key, JInt(0)))
             likes == PyAdd(0, Get(data[1], likes_key, JInt(0)))
         IN  IF ~plays.ok \/ ~likes.ok THEN [acc EXCEPT !.ok = FALSE]
             ELSE [ok |-> TRUE,
                   total_plays |-> plays.v,
                   total_likes |-> likes.v,
                   platform_count |-> acc.platform_count + 1]

\* Mutant: the platform counter grows by the number of results.
AddListSlot_per_result(acc, data, plays_key, likes_key) ==
    IF ~acc.ok \/ data = <<>> THEN acc
    ELSE LET plays == PyAdd(acc.total_plays, Get(data[1], plays_key, JInt(0)))
             likes == PyAdd(acc.total_likes, Get(data[1], likes_key, JInt(0)))
         IN  IF ~plays.ok \/ ~likes.ok THEN [acc EXCEPT !.ok = FALSE]
             ELSE [ok |-> TRUE,
                   total_plays |-> plays.v,
                   total_likes |-> likes.v,
                   platform_count |-> acc.platform_count + Len(data)]

\* Mutant: the counters of the last result are added, not of the first.
AddListSlot_last(acc, data, plays_key, likes_key) ==
    IF ~acc.ok \/ data = <<>> THEN acc
    ELSE LET plays == PyAdd(acc.total_plays, Get(data[Len(data)], plays_key, JInt(0)))
             likes == PyAdd(acc.total_likes, Get(data[Len(data)], likes_key, JInt(0)))
         IN  IF ~plays.ok \/ ~likes.ok THEN [acc EXCEPT !.ok = FALSE]
             ELSE [ok |-> TRUE,
                   total_plays |-> plays.v,
                   total_likes |-> likes.v,
                   platform_count |-> acc.platform_count + 1]

\* One turn of the aggregation loop of enrich_track_data for a list slot:
\* a non-empty list counts its platform and adds the two counters of its
\* first element; an addition that raises ends the loop (ok = FALSE).
AddListSlot(acc, data, plays_key, likes_key) ==
    IF ~acc.ok \/ data = <<>> THEN acc
    ELSE LET plays == PyAdd(acc.total_plays, Get(data[1], plays_key, JInt(0)))
             likes == PyAdd(acc.total_likes, Get(data[1], likes_key, JInt(0)))
         IN  IF ~plays.ok \/ ~likes.ok THEN [acc EXCEPT !.ok = FALSE]
             ELSE [ok |-> TRUE,
                   total_plays |-> plays.v,
                   total_likes |-> likes.v,
                   platform_count |-> acc.platform_count + 1]

\* Mutant: the Spotify popularity score is added to the plays.
Aggregate_with_popularity(platform_data) ==
    LET found == platform_data.spotify.kind = "some"
        start == [ok |-> TRUE,
                  total_plays |-> IF found THEN platform_data.spotify.v.popularity ELSE 0,
                  total_likes |-> 0,
                  platform_count |-> IF found THEN 1 ELSE 0]
        after_soundcloud == AddListSlot(start, platform_data.soundcloud,
                                        "playback_count", "likes_count")
    IN  AddListSlot(after_soundcloud, platform_data.youtube,
                    "view_count", "like_count")

\* The aggregation loop of enrich_track_data over the three slots, in the
\* order the dict holds them.
Aggregate(platform_data) ==
    LET start == [ok |-> TRUE, total_plays |-> 0, total_likes |-> 0,
                  platform_count |-> IF platform_data.spotify.kind = "some"
                                     THEN 1 ELSE 0]
        after_soundcloud == AddListSlot(start, platform_data.soundcloud,
                                        "playback_count", "likes_count")
    IN  AddListSlot(after_soundcloud, platform_data.youtube,
                    "view_count", "like_count")

\* One turn of the aggregation loop for the slot of platform.
AddSlot(acc, platform, data) ==
    IF platform = "spotify"
    THEN IF acc.ok /\ data.kind = "some"
         THEN [acc EXCEPT !.platform_count = @ + 1]
         ELSE acc
    ELSE IF platform = "soundcloud"
    THEN AddListSlot(acc, data, "playback_count", "likes_count")
    ELSE AddListSlot(acc, data, "view_count", "like_count")

\* The aggregation loop from acc over the slots named by order.
RECURSIVE AggregateFrom(_, _, _)
AggregateFrom(acc, order, platform_data) ==
    IF order = <<>> THEN acc
    ELSE AggregateFrom(AddSlot(acc, order[1], platform_data[order[1]]),
                       Tail(order), platform_data)

\* The aggregation loop over a dict that holds the three slots in the given
\* order (the order in which they were put in).
AggregateIn(order, platform_data) ==
    AggregateFrom([ok |-> TRUE, total_plays |-> 0, total_likes |-> 0,
                   platform_count |-> 0],
                  order, platform_data)

\* Mutant: the call is a no-op only when both names are empty.
NamesMissing_both(artist, title) == artist = "" /\ title = ""

\* `not artist or not title`
NamesMissing(artist, title) == artist = "" \/ title = ""

EnrichedKeys == {"platform_data", "platform_count", "total_plays",
                 "total_likes", "enriched_at"}

\* dict.update with the five enrichment entries
Update(track_data, platform_data, agg, now) ==
    [k \in DOMAIN track_data \cup EnrichedKeys |->
        CASE k = "platform_data" -> platform_data
          [] k = "platform_count" -> agg.platform_count
          [] k = "total_plays" -> agg.total_plays
          [] k = "total_likes" -> agg.total_likes
          [] k = "enriched_at" -> now
          [] OTHER -> track_data[k]]

\* enrich_track_data after the search gave s and the aggregation loop agg:
\* the loop raised, or the dict is updated and returned.
enrich_outcome(track_data, s, agg, now) ==
    IF ~agg.ok
    THEN [outcome |-> "raise", ret |-> track_data, track_data |-> track_data,
          calls |-> s.calls, net |-> s.net]
    ELSE [outcome |-> "return",
          ret |-> Update(track_data, s.ret, agg, now),
          track_data |-> Update(track_data, s.ret, agg, now),
          calls |-> s.calls, net |-> s.net]

\* enrich_track_data after the search gave s.
enrich_with(track_data, s, now) == enrich_outcome(track_data, s, Aggregate(s.ret), now)

\* TrackVerificationService.enrich_track_data.  outcome is "return" with the
\* returned dict in ret, or "raise" when an exception leaves the method;
\* track_data is the caller's dict as the call leaves it.
enrich_track_data(sp, sc, yt, track_data, env, now) ==
    IF NamesMissing(Get(track_data, "artist", ""), Get(track_data, "title", ""))
    THEN [outcome |-> "return", ret |-> track_data, track_data |-> track_data,
          calls |-> <<>>, net |-> <<>>]
    ELSE enrich_with(track_data,
                     cross_platform_search(sp, sc, yt, Get(track_data, "artist", ""),
                                           Get(track_data, "title", ""), env),
                     now)

(***************************************************************************)
(* Inputs of the model: the URLs, the track records and the responses of   *)
(* the three remote APIs.                                                  *)
(***************************************************************************)
Scheme == <<"h","t","t","p","s",":","/","/">>
HostSpotify == <<"o","p","e","n",".","s","p","o","t","i","f","y",".","c","o","m">>
HostSpotifyUpper == <<"O","p","e","n",".","S","p","o","t","i","f","y",".","C","O","M">>
HostSoundCloud == <<"s","o","u","n","d","c","l","o","u","d",".","c","o","m">>
HostYouTube == <<"w","w","w",".","y","o","u","t","u","b","e",".","c","o","m">>
HostYouTuBe == <<"y","o","u","t","u",".","b","e">>
HostOther == <<"e","x","a","m","p","l","e",".","o","r","g">>
PathTrack == <<"/","t","r","a","c","k","/">>
PathTrackUpper == <<"/","T","r","a","c","k","/">>
PathAlbum == <<"/","a","l","b","u","m","/">>
PathWatch == <<"/","w","a","t","c","h","?","v","=">>
PathEmbed == <<"/","e","m","b","e","d","/">>
PathRoot == <<"/">>
IdMixed == <<"a","b","c","1","2","3","4","5","X","Y","Z">>
IdDash == <<"a","-","B","_","c","1","2","3","4","5","6">>
IdShort == <<"a","b","c">>
IdLong == <<"4","u","L","U","6","h","M","C","j","M","I","7">>
TailMarker == <<"?","r","e","f","=","s","o","u","n","d","c","l","o","u","d",".","c","o","m">>
Vid1 == <<"d","Q","w","4","w","9","W","g","X","c","Q">>
Vid2 == <<"9","b","Z","k","p","7","q","1","9","f","0">>
Vid3 == <<"k","J","Q","P","7","k","i","w","5","F","k">>

Hosts == {HostSpotify, HostSpotifyUpper, HostSoundCloud, HostYouTube,
          HostYouTuBe, HostOther}
Paths == {PathTrack, PathTrackUpper, PathAlbum, PathWatch, PathEmbed, PathRoot}
Ids == {IdMixed, IdDash, IdShort, IdLong, <<>>}
Tails == {<<>>, TailMarker}

Urls == {Scheme \o h \o p \o i \o t :
            h \in Hosts, p \in Paths, i \in Ids, t \in Tails}

\* The URLs extract_video_id is applied to: those above, and URLs whose path
\* has a first segment of eleven characters or more before the 'v=' parameter.
PathAttribution == <<"/","a","t","t","r","i","b","u","t","i","o","n","_","l","i","n","k","?","v","=">>
VideoUrls ==
    Urls \cup {Scheme \o HostYouTube \o PathAttribution \o i : i \in {IdMixed, IdShort}}

\* The URLs the lookups of the clients are called with directly.
LookupUrls ==
    {Scheme \o h \o p \o IdMixed :
        h \in {HostSoundCloud, HostYouTube}, p \in {PathWatch, PathRoot}}

Artists == {"", "Excision"}
Titles == {"", "Gold (Stupid Love)"}
\* The (artist, title) pairs cross_platform_search is called with directly;
\* it passes them on unchecked.
SearchNames == {<<"Excision", "Gold (Stupid Love)">>, <<"", "">>}

\* The caller's track dicts: an id, and artist and title present or not.
TrackRecords ==
    {[k \in D |-> CASE k = "artist" -> a [] k = "title" -> t [] OTHER -> "7"] :
        D \in {{"id"} \cup X : X \in SUBSET {"artist", "title"}},
        a \in Artists, t \in Titles}

\* The arguments of the direct calls of the clients.
Queries == {Query(names[1], names[2]) : names \in SearchNames}
TrackIds == {IdLong, IdShort}
VideoIdLists == {<<>>, <<Vid1>>, <<Vid1, Vid2>>}

Metrics == 1..MaxMetric

SpotifyItem(p) == [id |-> IdLong, name |-> "Gold", popularity |-> p]
SpotifySearchResponses ==
    {Failed}
    \cup {[kind |-> "ok", items |-> x] :
            x \in {<<>>, <<SpotifyItem(20)>>, <<SpotifyItem(80), SpotifyItem(20)>>,
                   <<[id |-> IdLong, name |-> "Gold"]>>}}
SpotifyTrackResponses ==
    {Failed, [kind |-> "ok", name |-> "Gold", popularity |-> 20]}
SpotifyFeaturesResponses ==
    {Failed} \cup {[kind |-> "ok", list |-> x] : x \in {<<Some("features")>>, <<None>>}}

SoundCloudRaw(D, p, l) ==
    [k \in D |-> CASE k = "id" -> 1
                 [] k = "title" -> "Gold"
                 [] k = "playback_count" -> p
                 [] k = "likes_count" -> l
                 [] OTHER -> "Dubstep"]
\* The first track of a collection: counters that are numbers ...
SoundCloudFirsts ==
    {SoundCloudRaw(SoundCloudTrackKeys, JInt(p), JInt(l)) : p \in Metrics, l \in Metrics}
\* ... or a track with a null counter or with a counter missing.
SoundCloudOdd ==
    {SoundCloudRaw(SoundCloudTrackKeys \cup {"genre"}, JInt(1), JInt(1)),
          SoundCloudRaw(SoundCloudTrackKeys, JNull, JInt(1)),
          SoundCloudRaw(SoundCloudTrackKeys, JInt(1), JNull),
          SoundCloudRaw(SoundCloudTrackKeys \ {"playback_count"}, JInt(1), JInt(1)),
          SoundCloudRaw(SoundCloudTrackKeys \ {"likes_count"}, JInt(1), JInt(1))}
\* The tracks after the first: well-formed, with counters of their own.
SoundCloudExtras(n) ==
    [i \in 1..n |-> [SoundCloudRaw(SoundCloudTrackKeys, JInt(MaxMetric + i), JInt(MaxMetric + i))
                        EXCEPT !.id = 1 + i]]
SoundCloudSearchResponses ==
    {Failed, [kind |-> "ok", collection |-> <<>>]}
    \cup {[kind |-> "ok", collection |-> <<f>> \o SoundCloudExtras(n)] :
            f \in SoundCloudFirsts, n \in 0..MaxExtra}
    \cup {[kind |-> "ok", collection |-> <<f>>] : f \in SoundCloudOdd}
SoundCloudResolveResponses ==
    {Failed}
    \cup {[kind |-> "ok", track |-> t] :
            t \in {SoundCloudRaw(SoundCloudTrackKeys, JInt(1), JInt(1)),
                   SoundCloudRaw(SoundCloudTrackKeys, JNull, JInt(1)),
                   SoundCloudRaw(SoundCloudTrackKeys \ {"playback_count"}, JInt(1), JInt(1))}}

VideoIds == <<Vid1, Vid2, Vid3>>
YouTubeItem(i) == [videoId |-> VideoIds[i], title |-> "Gold"]
YouTubeSearchResponses ==
    {Failed}
    \cup {[kind |-> "ok", items |-> x] :
            x \in {<<>>, <<[title |-> "Gold"]>>, <<[videoId |-> Vid1]>>}
                  \cup {[i \in 1..n |-> YouTubeItem(i)] : n \in 1..MaxExtra}}
\* A statistics object: the counters are decimal strings, null, or missing.
Statistics(D, v, l) ==
    [k \in D |-> CASE k = "viewCount" -> v
                 [] k = "likeCount" -> l
                 [] OTHER -> JNumStr(0)]
StatisticsKeys == {"viewCount", "likeCount", "commentCount"}
YouTubeStatistics ==
    {Statistics(StatisticsKeys, JNumStr(v), JNumStr(MaxMetric + 1 - v)) : v \in Metrics}
    \cup {Statistics(StatisticsKeys, JNull, JNumStr(1)),
          Statistics(StatisticsKeys \ {"likeCount"}, JNumStr(1), JNumStr(1)),
          Statistics(StatisticsKeys \ {"viewCount", "likeCount"}, JNumStr(1), JNumStr(1))}
YouTubeStatisticsResponses ==
    {Failed,
     [kind |-> "ok", covers |-> "none", statistics |-> Statistics(StatisticsKeys, JNumStr(1), JNumStr(1))],
     [kind |-> "ok", covers |-> "rest", statistics |-> Statistics(StatisticsKeys, JNumStr(1), JNumStr(1))]}
    \cup {[kind |-> "ok", covers |-> "all", statistics |-> x] : x \in YouTubeStatistics}
YouTubeSnippetResponses ==
    {Failed}
    \cup {[kind |-> "ok", items |-> x] :
            x \in {<<>>, <<[title |-> "Gold"]>>, <<[etag |-> "e"]>>}}

Responses(r) ==
    CASE r = "spotify.search" -> SpotifySearchResponses
      [] r = "spotify.track" -> SpotifyTrackResponses
      [] r = "spotify.audio_features" -> SpotifyFeaturesResponses
      [] r = "soundcloud.tracks" -> SoundCloudSearchResponses
      [] r = "soundcloud.resolve" -> SoundCloudResolveResponses
      [] r = "youtube.search" -> YouTubeSearchResponses
      [] r = "youtube.videos.statistics" -> YouTubeStatisticsResponses
      [] r = "youtube.videos.snippet" -> YouTubeSnippetResponses

(***************************************************************************)
(* State: the service's three clients as constructed, and the last call    *)
(* made on the service with what it did.                                   *)
(***************************************************************************)
VARIABLES
    spotify,      \* SpotifyAPI: client_id, client_secret, client
    soundcloud,   \* SoundCloudAPI: client_id
    youtube,      \* YouTubeAPI: api_key
    op,           \* the method called, "idle" between calls
    arg,          \* its arguments as passed
    env,          \* the responses the remote side gave to its requests
    now,          \* the reading of time.time(), 0 when the clock is not read
    calls,        \* the client methods it called, in order
    net,          \* the outbound requests issued, in order
    outcome,      \* "return" or "raise" ("none" while idle)
    ret,          \* the value returned
    track_data    \* the caller's dict after an enrich_track_data call

\* The web application of src/app.py over the tables of src/models.py.
VARIABLES
    users,          \* table users: id -> row
    tracks,         \* table tracks: id -> row
    votes,          \* table votes: the bag of its rows
    platform_rows,  \* table platform_data: the rows in the order of insertion
    comments,       \* table comments: the rows in the order of insertion
    api_cache,      \* table api_cache: the set of its rows
    clock,          \* datetime.utcnow(), in seconds
    reqs            \* the request each worker is handling, with its position

clients == <<spotify, soundcloud, youtube>>
service == <<spotify, soundcloud, youtube, op, arg, env, now, calls, net,
             outcome, ret, track_data>>
database == <<users, tracks, votes, platform_rows, comments, api_cache>>
application == <<database, clock, reqs>>
vars == <<service, application>>

\* The workers that handle requests side by side.
Workers == {"w1", "w2"}
Waiting == [pc |-> "idle"]

Times == 1..MaxTime

\* Mutant: the client is built with either credential.
SpotifyInit_either(client_id, client_secret, built) ==
    [client_id |-> client_id, client_secret |-> client_secret,
     client |-> (client_id \/ client_secret) /\ built]

\* SpotifyAPI.__init__: the client is built only with both credentials, and
\* stays None when building it raises.
SpotifyInit(client_id, client_secret, built) ==
    [client_id |-> client_id, client_secret |-> client_secret,
     client |-> client_id /\ client_secret /\ built]

\* TrackVerificationService.__init__ under every configuration.
Init ==
    /\ \E id \in BOOLEAN, secret \in BOOLEAN, built \in BOOLEAN :
          spotify = SpotifyInit(id, secret, built)
    /\ \E id \in BOOLEAN : soundcloud = [client_id |-> id]
    /\ \E key \in BOOLEAN : youtube = [api_key |-> key]
    /\ op = "idle"
    /\ arg = <<>>
    /\ env = NoEnv
    /\ now = 0
    /\ calls = <<>>
    /\ net = <<>>
    /\ outcome = "none"
    /\ ret = None
    /\ track_data = <<>>
    /\ users = <<>>
    /\ tracks = <<>>
    /\ votes = EmptyBag
    /\ platform_rows = <<>>
    /\ comments = <<>>
    /\ api_cache = {}
    /\ clock = 0
    /\ reqs = [w \in Workers |-> Waiting]

\* The requests of a run that env leaves unanswered.
Unanswered(requests, e) == {i \in DOMAIN requests : e[requests[i].req] = NotAsked}

\* The first request of a run that env leaves unanswered, "" when there is
\* none.
FirstUnanswered(requests, e) ==
    IF Unanswered(requests, e) = {} THEN ""
    ELSE requests[Min(Unanswered(requests, e))].req

\* The environments that answer request r of a run under e.
Answers(r, e) == {[e EXCEPT ![r] = x] : x \in Responses(r)}

\* The environments of the runs of verify_track_url(url): a response for
\* each request the run issues, none for the others.
RECURSIVE VerifyRuns(_, _)
VerifyRunsFrom(url, e, r) ==
    IF r = "" THEN {e} ELSE UNION {VerifyRuns(url, a) : a \in Answers(r, e)}
VerifyRuns(url, e) ==
    VerifyRunsFrom(url, e,
        FirstUnanswered(verify_track_url(spotify, soundcloud, youtube, url, e).net, e))

\* The same for cross_platform_search(artist, title).
RECURSIVE SearchRuns(_, _, _)
SearchRunsFrom(artist, title, e, r) ==
    IF r = "" THEN {e} ELSE UNION {SearchRuns(artist, title, a) : a \in Answers(r, e)}
SearchRuns(artist, title, e) ==
    SearchRunsFrom(artist, title, e,
        FirstUnanswered(cross_platform_search(spotify, soundcloud, youtube,
                                              artist, title, e).net, e))

\* The same for enrich_track_data(record).
RECURSIVE EnrichRuns(_, _)
EnrichRunsFrom(record, e, r) ==
    IF r = "" THEN {e} ELSE UNION {EnrichRuns(record, a) : a \in Answers(r, e)}
EnrichRuns(record, e) ==
    EnrichRunsFrom(record, e,
        FirstUnanswered(enrich_track_data(spotify, soundcloud, youtube,
                                          record, e, 0).net, e))

\* The service has answered a call: what the call did is on record.
Answered(method, args, e, t, out) ==
    /\ op' = method
    /\ arg' = args
    /\ env' = e
    /\ now' = t
    /\ calls' = out.calls
    /\ net' = out.net
    /\ outcome' = out.outcome
    /\ ret' = out.ret
    /\ track_data' = out.track_data
    /\ UNCHANGED <<clients, application>>

\* A method that returns and has no dict of the caller to change.
Returned(out) ==
    [outcome |-> "return", ret |-> out.ret, track_data |-> <<>>,
     calls |-> out.calls, net |-> out.net]

\* A call of verify_track_url.
VerifyTrackUrl ==
    /\ op = "idle"
    /\ \E url \in Urls : \E e \in VerifyRuns(url, NoEnv) :
          Answered("verify_track_url", [url |-> url], e, 0,
                   Returned(verify_track_url(spotify, soundcloud, youtube, url, e)))

\* A call of cross_platform_search.
CrossPlatformSearch ==
    /\ op = "idle"
    /\ \E names \in SearchNames :
          \E e \in SearchRuns(names[1], names[2], NoEnv) :
          Answered("cross_platform_search",
                   [artist |-> names[1], title |-> names[2]], e, 0,
                   Returned(cross_platform_search(spotify, soundcloud, youtube,
                                                  names[1], names[2], e)))

\* The reading of the clock a run of enrich_track_data leaves: it is read
\* only on the path that reaches the update.
ClockRead(out) == IF out.outcome = "return" /\ out.calls # <<>> THEN out.ret.enriched_at ELSE 0

\* enrich_track_data has run with result out.
EnrichAnswered(record, e, out) ==
    Answered("enrich_track_data", [track_data |-> record], e, ClockRead(out), out)

\* A call of enrich_track_data.
EnrichTrackData ==
    /\ op = "idle"
    /\ \E record \in TrackRecords :
          \E e \in EnrichRuns(record, NoEnv) : \E t \in Times :
          EnrichAnswered(record, e,
              enrich_track_data(spotify, soundcloud, youtube, record, e, t))

\* The methods of the three clients, called directly.
ClientMethods == {"search_track", "get_track_details", "search_tracks",
                  "get_track_by_url", "search_videos", "get_video_details",
                  "get_video_by_url"}

\* What method of the service's clients does with argument a under the
\* responses e; extract_video_id is a static method and issues no request.
ClientResult(method, a, e) ==
    CASE method = "search_track" -> search_track(spotify, a[1], a[2], e)
      [] method = "get_track_details" -> get_track_details(spotify, a, e)
      [] method = "search_tracks" -> search_tracks(soundcloud, a, e)
      [] method = "get_track_by_url" -> get_track_by_url(soundcloud, a, e)
      [] method = "search_videos" -> search_videos(youtube, a, e)
      [] method = "get_video_details" -> get_video_details(youtube, a, e)
      [] method = "get_video_by_url" -> get_video_by_url(youtube, a, e)
      [] method = "extract_video_id" -> Return(extract_video_id(a), <<>>)

\* The environments of the runs of a client method.
RECURSIVE ClientRuns(_, _, _)
ClientRunsFrom(method, a, e, r) ==
    IF r = "" THEN {e} ELSE UNION {ClientRuns(method, a, x) : x \in Answers(r, e)}
ClientRuns(method, a, e) ==
    ClientRunsFrom(method, a, e, FirstUnanswered(ClientResult(method, a, e).net, e))

\* A client method has no dict of the caller to change and calls no other
\* client.
FromClient(r) ==
    [outcome |-> r.outcome, ret |-> r.ret, track_data |-> <<>>,
     calls |-> <<>>, net |-> r.net]

\* A direct call of a client method with argument a.
ClientCalled(method, a) ==
    /\ op = "idle"
    /\ \E e \in ClientRuns(method, a, NoEnv) :
          Answered(method, [a |-> a], e, 0, FromClient(ClientResult(method, a, e)))

SearchTrack == \E names \in SearchNames : ClientCalled("search_track", names)
GetTrackDetails == \E id \in TrackIds : ClientCalled("get_track_details", id)
SearchTracks == \E query \in Queries : ClientCalled("search_tracks", query)
GetTrackByUrl == \E url \in LookupUrls : ClientCalled("get_track_by_url", url)
SearchVideos == \E query \in Queries : ClientCalled("search_videos", query)
GetVideoDetails == \E ids \in VideoIdLists : ClientCalled("get_video_details", ids)
GetVideoByUrl == \E url \in LookupUrls : ClientCalled("get_video_by_url", url)
ExtractVideoId == \E url \in VideoUrls : ClientCalled("extract_video_id", url)

\* A call of any client method.
ClientCall ==
    \/ SearchTrack \/ GetTrackDetails
    \/ SearchTracks \/ GetTrackByUrl
    \/ SearchVideos \/ GetVideoDetails \/ GetVideoByUrl
    \/ ExtractVideoId

\* The caller has its answer; the service waits for the next call.
NextCall ==
    /\ op # "idle"
    /\ op' = "idle"
    /\ arg' = <<>>
    /\ env' = NoEnv
    /\ now' = 0
    /\ calls' = <<>>
    /\ net' = <<>>
    /\ outcome' = "none"
    /\ ret' = None
    /\ track_data' = <<>>
    /\ UNCHANGED <<clients, application>>

(***************************************************************************)
(* The web application: src/app.py over the tables of src/models.py.       *)
(* A handler that writes runs in two steps: its queries, which read the    *)
(* committed rows, and its commit, which writes the values computed from    *)
(* the rows as they were read.  Other workers' steps may come between.      *)
(***************************************************************************)
\* A Python float that is a quotient of integers.
Rat(n, d) == [num |-> n, den |-> d]
RatAdd(a, b) == Rat(a.num * b.den + b.num * a.den, a.den * b.den)
RatEq(a, b) == a.num * b.den = b.num * a.den
\* int(x), x never negative here.
RatInt(a) == a.num \div a.den
\* total / count.
RatDiv(a, n) == Rat(a.num, a.den * n)

\* The column defaults of models.py.
DefaultTrustScore == Rat(1, 2)
DefaultScore == Rat(0, 1)
DefaultTotalScore == Rat(0, 1)
DefaultCount == 0

\* The tables, as one value.
Db == [users |-> users, tracks |-> tracks, votes |-> votes,
       platform_rows |-> platform_rows, comments |-> comments]
EmptyDb == [users |-> <<>>, tracks |-> <<>>, votes |-> EmptyBag,
            platform_rows |-> <<>>, comments |-> <<>>]
\* The id an autoincrement primary key gives the next row.
NextId(table) == Len(table) + 1

\* The secret tokens are signed with: app.config['SECRET_KEY'], or another.
AppSecret == "SECRET_KEY"
OtherSecret == "other"
\* login's token lives 24 hours.
TokenLifetime == 86400
\* jwt.encode(...) at time t for user uid, signed with secret.
Token(secret, uid, t) == [secret |-> secret, user_id |-> uid, exp |-> t + TokenLifetime]
NoHeader == [kind |-> "missing"]
Header(bearer, token) == [kind |-> "present", bearer |-> bearer, token |-> token]
Garbled == [secret |-> "none", user_id |-> 0, exp |-> 0]

\* Mutant: the expiry of the token is not looked at.
token_required_unexpiring(header, d, t) ==
    IF header.kind = "missing" THEN [status |-> 401, user_id |-> 0]
    ELSE IF header.token.secret # AppSecret THEN [status |-> 401, user_id |-> 0]
    ELSE IF header.token.user_id \notin DOMAIN d.users THEN [status |-> 401, user_id |-> 0]
    ELSE [status |-> 0, user_id |-> header.token.user_id]

\* What token_required answers before the handler's body: 401, or 0 and the
\* user the body is called with.
Unauthorized == [status |-> 401, user_id |-> 0]
token_required(header, d, t) ==
    IF header.kind = "missing" THEN Unauthorized
    ELSE IF header.token.secret # AppSecret THEN Unauthorized
    ELSE IF header.token.exp <= t THEN Unauthorized
    ELSE IF header.token.user_id \notin DOMAIN d.users THEN Unauthorized
    ELSE [status |-> 0, user_id |-> header.token.user_id]

\* A request at a worker: the handler, what it was sent and when, its
\* position, the rows its session has loaded, and its answer once it has one.
NoRow == [kind |-> "none"]
Handling(handler, header, data, t, auth, r) ==
    [pc |-> r.pc, handler |-> handler, header |-> header, data |-> data,
     at |-> t, body |-> auth.status # 401, status |-> r.status,
     user_id |-> r.user_id, user |-> r.user, track |-> r.track,
     result |-> r.result, listed |-> r.listed]
\* register is not wrapped by token_required.
Open == [status |-> 0, user_id |-> 0]
\* An answer with a body: result, and whether the handler listed the tracks
\* table for it.
AnswerWith(status, result, listed) ==
    [pc |-> "done", status |-> status, user_id |-> 0, user |-> NoRow, track |-> NoRow,
     result |-> result, listed |-> listed]
Answer(status) == AnswerWith(status, None, FALSE)
Pending(uid, user, track) ==
    [pc |-> "commit", status |-> 0, user_id |-> uid, user |-> user, track |-> track,
     result |-> None, listed |-> FALSE]
Free(w) == reqs[w].pc \in {"idle", "done"}

\* The answer of a request that ends: its session is discarded.
Ended(r, status) ==
    [r EXCEPT !.pc = "done", !.status = status, !.user = NoRow, !.track = NoRow]

Written(d) ==
    /\ users' = d.users
    /\ tracks' = d.tracks
    /\ votes' = d.votes
    /\ platform_rows' = d.platform_rows
    /\ comments' = d.comments

\* The body of a request to vote: a track id (none, a mock id or a number)
\* and component scores.
NoTrackId == [kind |-> "none"]
MockTrackId == [kind |-> "mock"]
TrackId(n) == [kind |-> "id", id |-> n]
RECURSIVE SumValues(_, _)
SumValues(scores, keys) ==
    IF keys = {} THEN 0
    ELSE LET k == CHOOSE x \in keys : TRUE
         IN scores[k] + SumValues(scores, keys \ {k})
overall_score(scores) ==
    IF DOMAIN scores = {} THEN Rat(5, 1)
    ELSE Rat(SumValues(scores, DOMAIN scores), Cardinality(DOMAIN scores))

\* The Vote rows of user uid on track tid.
VotesOf(vs, uid, tid) ==
    {row \in BagToSet(vs) : row.user_id = uid /\ row.track_id = tid}

\* vote_track up to its commit: the queries.
vote_track_queries(data, uid, d) ==
    IF data.track_id.kind = "none" THEN Answer(400)
    ELSE IF data.track_id.kind = "mock" THEN Answer(200)
    ELSE IF data.track_id.id \notin DOMAIN d.tracks THEN Answer(404)
    ELSE IF VotesOf(d.votes, uid, data.track_id.id) # {} THEN Answer(400)
    ELSE Pending(uid, d.users[uid], d.tracks[data.track_id.id])

vote_track_begin(header, data, d, t, auth) ==
    IF auth.status = 401 THEN Answer(401)
    ELSE vote_track_queries(data, auth.user_id, d)

\* UNIQUE (user_id, track_id) on votes: may row be inserted?
\* Mutant: the table has no such constraint.
unique_user_track_vote_absent(vs, row) == TRUE
unique_user_track_vote(vs, row) == VotesOf(vs, row.user_id, row.track_id) = {}

\* The row vote_track inserts.
VoteRow(r, overall) ==
    [user_id |-> r.user_id, track_id |-> r.data.track_id.id,
     score |-> RatInt(overall), overall |-> overall]

\* db.session.commit() of vote_track: the INSERT, and the UPDATEs that set
\* the columns to the values computed from the rows as the session loaded
\* them; all of it or, on IntegrityError (answered by the 500 handler and its
\* rollback), nothing.
vote_track_commit(r, d, overall) ==
    IF ~unique_user_track_vote(d.votes, VoteRow(r, overall))
    THEN d
    ELSE [d EXCEPT
            !.votes = @ (+) SetToBag({VoteRow(r, overall)}),
            !.tracks[r.data.track_id.id].vote_count = r.track.vote_count + 1,
            !.tracks[r.data.track_id.id].total_score =
                RatAdd(r.track.total_score, overall),
            !.tracks[r.data.track_id.id].score =
                RatDiv(RatAdd(r.track.total_score, overall), r.track.vote_count + 1),
            !.users[r.user_id].votes_count = r.user.votes_count + 1,
            !.users[r.user_id].trust_score = RatAdd(r.user.trust_score, Rat(1, 1))]
vote_track_status(r, d, overall) ==
    IF ~unique_user_track_vote(d.votes, VoteRow(r, overall)) THEN 500 ELSE 200

\* submit_track.
SubmitFields == {"url", "title", "artist", "genre"}
TracksNamed(ts, title, artist) ==
    {i \in 1..Len(ts) : ts[i].title = title /\ ts[i].artist = artist}
submit_track_queries(data, uid, d) ==
    IF ~(SubmitFields \subseteq DOMAIN data) THEN Answer(400)
    ELSE IF TracksNamed(d.tracks, data.title, data.artist) # {} THEN Answer(400)
    ELSE Pending(uid, d.users[uid], NoRow)
submit_track_begin(header, data, d, t, auth) ==
    IF auth.status = 401 THEN Answer(401)
    ELSE submit_track_queries(data, auth.user_id, d)
\* hashlib.md5(url.encode()).hexdigest()
Md5(url) == <<"md5", url>>
TrackRow(data, uid, t) ==
    [title |-> data.title, artist |-> data.artist, genre |-> data.genre,
     score |-> DefaultScore, total_score |-> DefaultTotalScore,
     vote_count |-> DefaultCount, submitted_by |-> uid, created_at |-> t]
PlatformDataRow(tid, data) ==
    [track_id |-> tid, platform |-> "submitted", url |-> data.url,
     external_id |-> Md5(data.url)]
\* The tracks table has no constraint on (title, artist): the commit succeeds.
submit_track_commit(r, d, t) ==
    [d EXCEPT
       !.tracks = Append(@, TrackRow(r.data, r.user_id, t)),
       !.platform_rows = Append(@, PlatformDataRow(NextId(d.tracks), r.data)),
       !.users[r.user_id].submissions_count = r.user.submissions_count + 1,
       !.users[r.user_id].trust_score = RatAdd(r.user.trust_score, Rat(2, 1))]

\* register.
RegisterFields == {"username", "email", "password"}
\* data.get(k) is truthy.
Given(data, k) == k \in DOMAIN data /\ data[k] # ""
UsersWith(us, column, value) == {i \in 1..Len(us) : us[i][column] = value}
\* Mutant: only the username is looked up.
register_username_only(data, d) ==
    IF ~(\A k \in RegisterFields : Given(data, k)) THEN Answer(400)
    ELSE IF UsersWith(d.users, "username", data.username) # {} THEN Answer(400)
    ELSE Pending(0, NoRow, NoRow)
register_queries(data, d) ==
    IF ~(\A k \in RegisterFields : Given(data, k)) THEN Answer(400)
    ELSE IF UsersWith(d.users, "username", data.username) # {} THEN Answer(400)
    ELSE IF UsersWith(d.users, "email", data.email) # {} THEN Answer(400)
    ELSE Pending(0, NoRow, NoRow)
UserRow(data) ==
    [username |-> data.username, email |-> data.email,
     votes_count |-> DefaultCount, submissions_count |-> DefaultCount,
     trust_score |-> DefaultTrustScore]
\* UNIQUE on users.username and on users.email: may row be inserted?
unique_user(us, row) ==
    /\ UsersWith(us, "username", row.username) = {}
    /\ UsersWith(us, "email", row.email) = {}
register_commit(r, d) ==
    IF ~unique_user(d.users, UserRow(r.data)) THEN d
    ELSE [d EXCEPT !.users = Append(@, UserRow(r.data))]
register_status(r, d) ==
    IF ~unique_user(d.users, UserRow(r.data)) THEN 500 ELSE 201

\* add_comment.
\* text.strip(): the text without the blanks at its ends.
RECURSIVE StripLeft(_)
StripLeft(text) ==
    IF text # <<>> /\ Head(text) = " " THEN StripLeft(Tail(text)) ELSE text
RECURSIVE StripRight(_)
StripRight(text) ==
    IF text # <<>> /\ text[Len(text)] = " "
    THEN StripRight(SubSeq(text, 1, Len(text) - 1)) ELSE text
Strip(text) == StripRight(StripLeft(text))
MinCommentLen == 5
add_comment_begin(header, data, d, t, auth) ==
    IF auth.status = 401 THEN Answer(401)
    ELSE IF Len(Strip(data.text)) < MinCommentLen THEN Answer(400)
    ELSE Pending(auth.user_id, d.users[auth.user_id], NoRow)
CommentRow(r) ==
    [user_id |-> r.user_id, track_id |-> r.data.track_id.id,
     text |-> Strip(r.data.text)]
add_comment_commit(r, d) ==
    [d EXCEPT
       !.comments = Append(@, CommentRow(r)),
       !.users[r.user_id].trust_score = RatAdd(r.user.trust_score, Rat(1, 1))]

\* validate_token and get_user_stats only read.
validate_token(header, data, d, t, auth) ==
    IF auth.status = 401 THEN Answer(401) ELSE Answer(200)
get_user_stats(header, data, d, t, auth) ==
    IF auth.status = 401 THEN Answer(401)
    ELSE IF auth.user_id # data.user_id THEN Answer(403)
    ELSE Answer(200)

\* APICache.
\* json.dumps(value) and json.loads(text).
Dumps(value) == [json |-> value]
Loads(text) == text.json
CacheRow(key, value, expires_at) ==
    [key |-> key, value |-> value, expires_at |-> expires_at]
Entries(c, key) == {row \in c : row.key = key}
\* APICache.query.filter_by(key=key).first()
FirstEntry(c, key) == CHOOSE row \in Entries(c, key) : TRUE
\* Mutant: an entry is returned up to and at its expiry.
get_cached_at_expiry(c, key, t) ==
    IF Entries(c, key) = {} THEN None
    ELSE IF FirstEntry(c, key).expires_at >= t
    THEN Some(Loads(FirstEntry(c, key).value))
    ELSE None
\* What get_cached(key) returns at time t ...
get_cached(c, key, t) ==
    IF Entries(c, key) = {} THEN None
    ELSE IF FirstEntry(c, key).expires_at > t
    THEN Some(Loads(FirstEntry(c, key).value))
    ELSE None
\* ... and the rows it leaves.
get_cached_rows(c, key, t) ==
    IF Entries(c, key) # {} /\ ~(FirstEntry(c, key).expires_at > t)
    THEN c \ {FirstEntry(c, key)}
    ELSE c
\* The rows set_cached(key, value, ttl_seconds) leaves at time t.
set_cached(c, key, value, ttl_seconds, t) ==
    IF Entries(c, key) # {}
    THEN (c \ {FirstEntry(c, key)})
            \cup {[FirstEntry(c, key) EXCEPT !.value = Dumps(value),
                                            !.expires_at = t + ttl_seconds]}
    ELSE c \cup {CacheRow(key, Dumps(value), t + ttl_seconds)}
\* The default of ttl_seconds, and the ttl of the track listings.
TtlSeconds == 300

\* The track listings: get_trending_tracks and get_top_tracks.
Day == 86400
\* f"trending_{limit}" and f"top_{period}_{limit}"
CacheKey(name, period, limit) == [name |-> name, period |-> period, limit |-> limit]
\* Python's truth of what get_cached returned: neither None nor empty.
Truthy(cached) == cached # None /\ cached.v # <<>>
RatLess(a, b) == a.num * b.den < b.num * a.den
\* The tracks created at or after since ...
Since(ts, since) == {i \in DOMAIN ts : ts[i].created_at >= since}
\* ... in an order of descending score (the order of equal scores is the
\* database's choice) ...
Descending(ts, ids) ==
    {p \in [1..Cardinality(ids) -> ids] :
        /\ \A i \in DOMAIN p, j \in DOMAIN p : p[i] = p[j] => i = j
        /\ \A i \in DOMAIN p, j \in DOMAIN p :
              i < j => ~RatLess(ts[p[i]].score, ts[p[j]].score)}
\* ... the first limit of them, as the handlers list them.
Listed(ts, p, limit) ==
    [i \in 1..(IF limit < Len(p) THEN limit ELSE Len(p)) |->
        [id |-> p[i], title |-> ts[p[i]].title, artist |-> ts[p[i]].artist,
         score |-> ts[p[i]].score, vote_count |-> ts[p[i]].vote_count]]
Listings(ts, since, limit) ==
    {Listed(ts, p, limit) : p \in Descending(ts, Since(ts, since))}
\* The start of the period of get_top_tracks at time t.
AllTime == 0 - 400 * Day
PeriodStart(period, t) ==
    IF period = "weekly" THEN t - 7 * Day
    ELSE IF period = "monthly" THEN t - 30 * Day
    ELSE AllTime
\* Either handler from its cache key on: the answer ...
listing_answer(cached, listing) ==
    IF Truthy(cached) THEN AnswerWith(200, cached.v, FALSE)
    ELSE AnswerWith(200, listing, TRUE)
\* ... and the rows of the cache.
listing_rows(c, key, t, cached, listing) ==
    IF Truthy(cached) THEN get_cached_rows(c, key, t)
    ELSE set_cached(get_cached_rows(c, key, t), key, listing, TtlSeconds, t)

\* get_youtube_trending.  What the API answers to one of the four queries:
\* to the search, nothing (the request raises), a body without items, or
\* items; to the statistics request for the new ids, nothing, or statistics
\* for the ids in counted.
SearchQueries == 1..4
QueryAnswer(search, items, stats, counted) ==
    [search |-> search, items |-> items, stats |-> stats, counted |-> counted]
\* The viewCount YouTube reports for a video.
ViewCountOf(id) == IF id = "vidA" THEN 1 ELSE 2
\* int(stats.get('viewCount', 0))
view_count(id, a) == IF id \in a.counted THEN ViewCountOf(id) ELSE 0
\* The ids of items that are not in seen, in their order.
RECURSIVE Unseen(_, _)
Unseen(items, seen) ==
    IF items = <<>> THEN <<>>
    ELSE IF Head(items) \in seen THEN Unseen(Tail(items), seen)
    ELSE <<Head(items)>> \o Unseen(Tail(items), seen)
\* The entries the loop over search_data['items'] appends: one for every item
\* whose id is in seen_video_ids.
RECURSIVE Combined(_, _, _)
Combined(items, seen, a) ==
    IF items = <<>> THEN <<>>
    ELSE IF Head(items) \in seen
    THEN <<[id |-> Head(items), view_count |-> view_count(Head(items), a)]>>
            \o Combined(Tail(items), seen, a)
    ELSE Combined(Tail(items), seen, a)
\* One pass of the loop over the queries, from all_videos and seen_video_ids.
Gathered(all_videos, seen) == [all_videos |-> all_videos, seen |-> seen]
query_pass(g, a) ==
    IF a.search # "items" THEN g
    ELSE IF Unseen(a.items, g.seen) = <<>> THEN g
    ELSE IF a.stats # "ok"
    THEN Gathered(g.all_videos, g.seen \cup Range(Unseen(a.items, g.seen)))
    ELSE Gathered(g.all_videos \o
                      Combined(a.items, g.seen \cup Range(Unseen(a.items, g.seen)), a),
                  g.seen \cup Range(Unseen(a.items, g.seen)))
RECURSIVE query_passes(_, _, _)
query_passes(g, answers, q) ==
    IF q > Len(answers) THEN g
    ELSE query_passes(query_pass(g, answers[q]), answers, q + 1)
\* list.sort(key=view_count, reverse=True): stable.
RECURSIVE InsertDescending(_, _)
InsertDescending(sorted, x) ==
    IF sorted = <<>> THEN <<x>>
    ELSE IF Head(sorted).view_count >= x.view_count
    THEN <<Head(sorted)>> \o InsertDescending(Tail(sorted), x)
    ELSE <<x>> \o sorted
RECURSIVE SortDescending(_)
SortDescending(videos) ==
    IF videos = <<>> THEN <<>>
    ELSE InsertDescending(SortDescending(SubSeq(videos, 1, Len(videos) - 1)),
                          videos[Len(videos)])
TopVideos == 20
Top(videos) ==
    SubSeq(videos, 1, IF Len(videos) < TopVideos THEN Len(videos) ELSE TopVideos)
get_youtube_trending(api_key, answers) ==
    IF ~api_key THEN AnswerWith(500, None, FALSE)
    ELSE AnswerWith(200,
                    Some(Top(SortDescending(
                        query_passes(Gathered(<<>>, {}), answers, 1).all_videos))),
                    FALSE)

(***************************************************************************)
(* What the application is sent.                                           *)
(***************************************************************************)
\* The instants the clock is read at, in seconds.
Instants == {0, 299, 300, 301}
Headers ==
    {NoHeader,
     Header(TRUE, Token(AppSecret, 1, 0)),
     Header(FALSE, Token(AppSecret, 2, 0)),
     Header(TRUE, Token(AppSecret, 3, 0)),
     Header(TRUE, Token(AppSecret, 1, 0 - TokenLifetime)),
     Header(TRUE, Token(OtherSecret, 1, 0)),
     Header(TRUE, Garbled)}
\* The headers of the two registered users, logged in at time 0.
Members == {Header(TRUE, Token(AppSecret, 1, 0)), Header(FALSE, Token(AppSecret, 2, 0))}
NoScores == [k \in {} |-> 0]
ScoreDicts ==
    {NoScores,
     [k \in {"dropQuality", "production"} |-> IF k = "production" THEN 8 ELSE 7]}
VoteBody(track_id, scores) == [track_id |-> track_id, scores |-> scores]
VoteBodies ==
    {VoteBody(t, NoScores) : t \in {NoTrackId, MockTrackId, TrackId(2)}}
        \cup {VoteBody(TrackId(1), scores) : scores \in ScoreDicts}
Submission(title, artist) ==
    [url |-> "https://soundcloud.com/a/b", title |-> title, artist |-> artist,
     genre |-> "dubstep"]
SubmitBodies ==
    {Submission(t, a) : t \in {"Drop", "Wub"}, a \in {"Skrillex"}}
        \cup {[url |-> "https://soundcloud.com/a/b", title |-> "Drop",
               artist |-> "Skrillex"]}
Registration(username, email) ==
    [username |-> username, email |-> email, password |-> "pw"]
RegisterBodies ==
    {Registration(u, e) : u \in {"alice", "bob", ""}, e \in {"alice@x", "bob@x"}}
        \cup {[username |-> "alice", password |-> "pw"]}
CommentBodies ==
    [track_id : {TrackId(1)}, text : {<<" ", "w", "u", "b", "s", " ">>,
                             <<"h", "e", "a", "v", "y", " ">>}]
StatsBodies == [user_id : {1, 2}]
\* A GET without parameters.
NoBody == [kind |-> "none"]

\* The direct calls of APICache.
DirectKeys == {CacheKey("charts", "", 0), CacheKey("stats", "", 0)}
CacheValues == {<<>>, <<[id |-> 1]>>}
Ttls == {TtlSeconds, 1}
\* The parameters of the listings.
Limits == {20}
Periods == {"weekly", "monthly", "all"}

\* The answers to a query of get_youtube_trending.
QueryAnswers ==
    {QueryAnswer("error", <<>>, "error", {}),
     QueryAnswer("no items", <<>>, "error", {}),
     QueryAnswer("items", <<"vidA">>, "ok", {"vidA"}),
     QueryAnswer("items", <<"vidA", "vidB">>, "ok", {"vidB"}),
     QueryAnswer("items", <<"vidA", "vidB">>, "error", {})}

\* The tables after alice and bob have registered ...
UsersDb ==
    register_commit([data |-> Registration("bob", "bob@x")],
        register_commit([data |-> Registration("alice", "alice@x")], EmptyDb))
\* ... and after user uid has then submitted a track.
SubmittedAt(uid, data, d, t) ==
    submit_track_commit([user_id |-> uid, user |-> d.users[uid], data |-> data], d, t)
SubmittedBy(uid, data, d) == SubmittedAt(uid, data, d, 0)
TrackDb == SubmittedBy(1, Submission("Drop", "Skrillex"), UsersDb)
\* ... and another one.
TracksDb == SubmittedBy(2, Submission("Wub", "Skrillex"), TrackDb)
\* The tables when the only track was submitted eight days ago.
OldDb == SubmittedAt(1, Submission("Drop", "Skrillex"), UsersDb, 0 - 8 * Day)

\* The application over tables d, with every credential configured but
\* perhaps YOUTUBE_API_KEY.
ServingWith(d, api_key) ==
    /\ spotify = SpotifyInit(TRUE, TRUE, TRUE)
    /\ soundcloud = [client_id |-> TRUE]
    /\ youtube = [api_key |-> api_key]
    /\ op = "idle"
    /\ arg = <<>>
    /\ env = NoEnv
    /\ now = 0
    /\ calls = <<>>
    /\ net = <<>>
    /\ outcome = "none"
    /\ ret = None
    /\ track_data = <<>>
    /\ users = d.users
    /\ tracks = d.tracks
    /\ votes = d.votes
    /\ platform_rows = d.platform_rows
    /\ comments = d.comments
    /\ api_cache = {}
    /\ clock = 0
    /\ reqs = [w \in Workers |-> Waiting]
Serving(d) == ServingWith(d, TRUE)

(***************************************************************************)
(* The steps of the handlers.                                              *)
(***************************************************************************)
\* Worker w takes a request and runs its handler up to its commit, or to its
\* answer when it has no commit.
Begun(w, handler, header, data, auth, r) ==
    /\ reqs' = [reqs EXCEPT ![w] = Handling(handler, header, data, clock, auth, r)]
    /\ UNCHANGED <<service, database, clock>>
\* Worker w commits tables d and answers.
Committed(w, d, status) ==
    /\ Written(d)
    /\ reqs' = [reqs EXCEPT ![w] = Ended(@, status)]
    /\ UNCHANGED <<service, api_cache, clock>>
AtCommit(w, handler) == reqs[w].pc = "commit" /\ reqs[w].handler = handler

VoteTrack(w, headers) ==
    /\ Free(w)
    /\ \E h \in headers, data \in VoteBodies :
          Begun(w, "vote_track", h, data, token_required(h, Db, clock),
                vote_track_begin(h, data, Db, clock, token_required(h, Db, clock)))
VoteTrackCommit(w) ==
    /\ AtCommit(w, "vote_track")
    /\ Committed(w, vote_track_commit(reqs[w], Db, overall_score(reqs[w].data.scores)),
                 vote_track_status(reqs[w], Db, overall_score(reqs[w].data.scores)))

\* The bound on the tracks table.
MaxTracks == 2
SubmitTrack(w, headers) ==
    /\ Free(w)
    /\ Len(tracks) < MaxTracks
    /\ \E h \in headers, data \in SubmitBodies :
          Begun(w, "submit_track", h, data, token_required(h, Db, clock),
                submit_track_begin(h, data, Db, clock, token_required(h, Db, clock)))
SubmitTrackCommit(w) ==
    /\ AtCommit(w, "submit_track")
    /\ Committed(w, submit_track_commit(reqs[w], Db, clock), 201)

Register(w) ==
    /\ Free(w)
    /\ \E data \in RegisterBodies :
          Begun(w, "register", NoHeader, data, Open, register_queries(data, Db))
RegisterCommit(w) ==
    /\ AtCommit(w, "register")
    /\ Committed(w, register_commit(reqs[w], Db), register_status(reqs[w], Db))

\* The bound on the comments table.
MaxComments == 1
AddComment(w, headers) ==
    /\ Free(w)
    /\ Len(comments) < MaxComments
    /\ \E h \in headers, data \in CommentBodies :
          Begun(w, "add_comment", h, data, token_required(h, Db, clock),
                add_comment_begin(h, data, Db, clock, token_required(h, Db, clock)))
AddCommentCommit(w) ==
    /\ AtCommit(w, "add_comment")
    /\ Committed(w, add_comment_commit(reqs[w], Db), 201)

ValidateToken(w, headers) ==
    /\ Free(w)
    /\ \E h \in headers :
          Begun(w, "validate_token", h, NoBody, token_required(h, Db, clock),
                validate_token(h, NoBody, Db, clock, token_required(h, Db, clock)))
GetUserStats(w, headers) ==
    /\ Free(w)
    /\ \E h \in headers, data \in StatsBodies :
          Begun(w, "get_user_stats", h, data, token_required(h, Db, clock),
                get_user_stats(h, data, Db, clock, token_required(h, Db, clock)))

\* A call of APICache.get_cached or APICache.set_cached by worker w.
Called(w, method, data, returned, rows) ==
    /\ reqs' = [reqs EXCEPT ![w] =
                    Handling(method, NoHeader, data, clock, Open,
                             AnswerWith(0, returned, FALSE))]
    /\ api_cache' = rows
    /\ UNCHANGED <<service, users, tracks, votes, platform_rows, comments, clock>>
GetCached(w) ==
    /\ Free(w)
    /\ \E key \in DirectKeys :
          Called(w, "get_cached", [key |-> key], get_cached(api_cache, key, clock),
                 get_cached_rows(api_cache, key, clock))
SetCached(w) ==
    /\ Free(w)
    /\ \E key \in DirectKeys, value \in CacheValues, ttl \in Ttls :
          Called(w, "set_cached", [key |-> key, value |-> value, ttl_seconds |-> ttl],
                 None, set_cached(api_cache, key, value, ttl, clock))

\* A listing request at worker w.
Listing(w, handler, data, key, listing) ==
    /\ reqs' = [reqs EXCEPT ![w] =
                    Handling(handler, NoHeader, data, clock, Open,
                             listing_answer(get_cached(api_cache, key, clock), listing))]
    /\ api_cache' = listing_rows(api_cache, key, clock,
                                 get_cached(api_cache, key, clock), listing)
    /\ UNCHANGED <<service, users, tracks, votes, platform_rows, comments, clock>>
GetTrendingTracks(w) ==
    /\ Free(w)
    /\ \E limit \in Limits :
          \E listing \in Listings(tracks, clock - Day, limit) :
              Listing(w, "get_trending_tracks", [limit |-> limit],
                      CacheKey("trending", "", limit), listing)
GetTopTracks(w) ==
    /\ Free(w)
    /\ \E period \in Periods, limit \in Limits :
          \E listing \in Listings(tracks, PeriodStart(period, clock), limit) :
              Listing(w, "get_top_tracks", [period |-> period, limit |-> limit],
                      CacheKey("top", period, limit), listing)

GetYoutubeTrending(w) ==
    /\ Free(w)
    /\ \E answers \in [SearchQueries -> QueryAnswers] :
          Begun(w, "get_youtube_trending", NoHeader, [answers |-> answers], Open,
                get_youtube_trending(youtube.api_key, answers))

\* Time passes.
Tick ==
    /\ \E t \in Instants : t > clock /\ clock' = t
    /\ UNCHANGED <<service, database, reqs>>

\* The requests of each kind, at workers ws and with headers hs.
Voting(ws, hs) == \E w \in ws : VoteTrack(w, hs) \/ VoteTrackCommit(w)
Submitting(ws, hs) == \E w \in ws : SubmitTrack(w, hs) \/ SubmitTrackCommit(w)
Registering(ws) == \E w \in ws : Register(w) \/ RegisterCommit(w)
Commenting(ws, hs) == \E w \in ws : AddComment(w, hs) \/ AddCommentCommit(w)
Reading(ws, hs) == \E w \in ws : ValidateToken(w, hs) \/ GetUserStats(w, hs)
Caching(ws) == \E w \in ws : GetCached(w) \/ SetCached(w)
ListingRequests(ws) == \E w \in ws : GetTrendingTracks(w) \/ GetTopTracks(w)

Next ==
    \/ VerifyTrackUrl \/ CrossPlatformSearch \/ EnrichTrackData
    \/ ClientCall
    \/ NextCall
    \/ Voting(Workers, Headers) \/ Submitting(Workers, Headers)
    \/ Registering(Workers) \/ Commenting(Workers, Headers)
    \/ Reading(Workers, Headers)
    \/ Caching(Workers) \/ ListingRequests(Workers)
    \/ \E w \in Workers : GetYoutubeTrending(w)
    \/ Tick

Spec == Init /\ [][Next]_vars

\* The service under calls of one method only.
VerifySpec == Init /\ [][VerifyTrackUrl \/ NextCall]_vars
SearchSpec == Init /\ [][CrossPlatformSearch \/ NextCall]_vars
EnrichSpec == Init /\ [][EnrichTrackData \/ NextCall]_vars
\* The clients under direct calls.
ClientSpec == Init /\ [][ClientCall \/ NextCall]_vars
\* The application under requests of one kind, two workers side by side.
VoteSpec == Serving(TracksDb) /\ [][Voting(Workers, Members)]_vars
SubmitSpec == Serving(UsersDb) /\ [][Submitting(Workers, Members)]_vars
RegisterSpec == Serving(EmptyDb) /\ [][Registering(Workers)]_vars
\* The cache under direct calls as time passes, and under the listings'
\* requests at one worker, over fresh or old tracks.
CacheSpec == Serving(EmptyDb) /\ [][Caching(Workers) \/ Tick]_vars
ListingSpec ==
    (\E d \in {TracksDb, OldDb} : Serving(d)) /\ [][ListingRequests({"w1"}) \/ Tick]_vars
\* The YouTube listing at one worker, with and without an API key.
YoutubeSpec ==
    (\E key \in BOOLEAN : ServingWith(EmptyDb, key)) /\ [][GetYoutubeTrending("w1")]_vars
\* The handlers behind token_required, at one worker.
AuthSpec ==
    Serving(TrackDb) /\
        [][\/ Voting({"w1"}, Headers) \/ Submitting({"w1"}, Headers)
           \/ Commenting({"w1"}, Headers) \/ Reading({"w1"}, Headers)]_vars

(***************************************************************************)
(* Notions the properties below are stated in.                             *)
(***************************************************************************)
\* url contains marker m, letter case ignored.
MentionsMarker(url, m) ==
    \E i \in 1..Len(url) :
        /\ i + Len(m) - 1 <= Len(url)
        /\ \A k \in 1..Len(m) : LowerChar(url[i + k - 1]) = m[k]

\* The platform a URL is classified to: the first marker it contains, in the
\* order Spotify, SoundCloud, YouTube.
PlatformOf(url) ==
    IF MentionsMarker(url, MarkerSpotify) THEN "spotify"
    ELSE IF MentionsMarker(url, MarkerSoundCloud) THEN "soundcloud"
    ELSE IF MentionsMarker(url, MarkerYouTube) \/ MentionsMarker(url, MarkerYouTuBe)
    THEN "youtube"
    ELSE "none"

\* What the client method of call c answers under the responses of the run.
ClientLookup(c) ==
    CASE c.method = "get_track_details" -> get_track_details(spotify, c.arg, env).ret
      [] c.method = "get_track_by_url" -> get_track_by_url(soundcloud, c.arg, env).ret
      [] c.method = "get_video_by_url" -> get_video_by_url(youtube, c.arg, env).ret

\* An enrich_track_data call that got past its check of artist and title.
Searched == op = "enrich_track_data" /\ calls # <<>>
\* ... and returned.
Enriched == Searched /\ outcome = "return"

\* No credential of any platform is configured.
Unconfigured ==
    /\ ~(spotify.client_id /\ spotify.client_secret)
    /\ ~soundcloud.client_id
    /\ ~youtube.api_key

\* The counter a list slot contributes: that of its first element, 0 for [].
FirstCounter(data, key) == IF data = <<>> THEN 0 ELSE data[1][key].v

\* The platforms whose slot holds at least one result.
PlatformsFound(platform_data) ==
    {p \in {"spotify", "soundcloud", "youtube"} :
        IF p = "spotify" THEN platform_data.spotify.kind = "some"
        ELSE platform_data[p] # <<>>}

(***************************************************************************)
(* Properties.                                                             *)
(***************************************************************************)
\* C1: for a Spotify URL that contains 'track/<id>' with an alphanumeric id
\* of 11 or more characters, verify_track_url calls
\* SpotifyAPI.get_track_details with exactly that id, as written in the
\* original URL (letter case included).  The code fails this: it extracts
\* the id from the lower-cased URL.
C1_SpotifyIdAsWritten ==
    (/\ op = "verify_track_url"
     /\ PlatformOf(arg.url) = "spotify"
     /\ SpotifyIdSearch(arg.url).kind = "some"
     /\ Len(SpotifyIdSearch(arg.url).v) >= 11)
    => calls = <<Call("spotify", "get_track_details", SpotifyIdSearch(arg.url).v)>>

\* C2: for a URL that contains none of the platform markers (letter case
\* ignored), verify_track_url returns None, calls no client method and
\* issues no outbound request.
C2_NoMarkerNoCall ==
    (op = "verify_track_url" /\ PlatformOf(arg.url) = "none")
    => (outcome = "return" /\ ret = None /\ calls = <<>> /\ net = <<>>)

\* A call with a URL of no platform that yet carries a video id, on a
\* service whose YouTube client is configured.
C2_Witness ==
    /\ op = "verify_track_url"
    /\ PlatformOf(arg.url) = "none"
    /\ extract_video_id(arg.url).kind = "some"
    /\ youtube.api_key

\* C3: for a URL classified to a platform, verify_track_url returns None
\* whenever the lookup of that platform's client returns None (or no lookup
\* is made), and otherwise exactly {platform: the classified platform,
\* verified: True, data: the client's track}; no result has verified False
\* or data None.
C3_VerifiedOrNone ==
    (op = "verify_track_url" /\ PlatformOf(arg.url) # "none")
    => /\ outcome = "return"
       /\ ret.kind = "some" => (ret.v.verified = TRUE /\ ret.v.data # None)
       /\ IF calls = <<>> THEN ret = None
          ELSE LET look == ClientLookup(calls[1])
               IN  /\ Len(calls) = 1
                   /\ calls[1].client = PlatformOf(arg.url)
                   /\ look.kind = "none" => ret = None
                   /\ look.kind = "some" =>
                         ret = Some([platform |-> PlatformOf(arg.url),
                                     verified |-> TRUE,
                                     data |-> look.v])

\* A SoundCloud URL whose lookup found a track.
C3_Witness ==
    /\ op = "verify_track_url"
    /\ PlatformOf(arg.url) = "soundcloud"
    /\ ret.kind = "some"

\* C4: enrich_track_data called with a record whose artist or title is
\* missing or empty returns that record unchanged, with none of the five
\* enrichment keys added, and calls no client.
C4_MissingNamesNoOp ==
    (/\ op = "enrich_track_data"
     /\ \/ Get(arg.track_data, "artist", "") = ""
        \/ Get(arg.track_data, "title", "") = "")
    => /\ outcome = "return"
       /\ ret = arg.track_data
       /\ track_data = arg.track_data
       /\ DOMAIN ret \cap EnrichedKeys = {}
       /\ calls = <<>>
       /\ net = <<>>

\* A call with an artist and an empty title on a fully configured service.
C4_Witness ==
    /\ op = "enrich_track_data"
    /\ "artist" \in DOMAIN arg.track_data
    /\ arg.track_data.artist # ""
    /\ "title" \in DOMAIN arg.track_data
    /\ arg.track_data.title = ""
    /\ spotify.client /\ soundcloud.client_id /\ youtube.api_key

\* C5: with all three platforms unconfigured, the search of all platforms
\* made for an enrichment never raises and gives platform_count = 0,
\* total_plays = 0, total_likes = 0 and empty slots, with no request sent.
C5_UnconfiguredEmpty ==
    (Unconfigured /\ Searched)
    => /\ outcome = "return"
       /\ ret.platform_count = 0
       /\ ret.total_plays = 0
       /\ ret.total_likes = 0
       /\ ret.platform_data = [spotify |-> None, soundcloud |-> <<>>, youtube |-> <<>>]
       /\ net = <<>>

\* An enrichment that searched on an unconfigured service.
C5_Witness == Unconfigured /\ Searched /\ Len(calls) = 3

\* C6: a run of enrich_track_data and the run that differs from it only in
\* the Spotify response (another popularity, no item, a failure) end the
\* same way and, when they return, with equal total_plays and total_likes.
C6_TotalsIgnoreSpotify ==
    Searched =>
        \A x \in SpotifySearchResponses :
            LET other == enrich_track_data(spotify, soundcloud, youtube, arg.track_data,
                                           [env EXCEPT !["spotify.search"] = x], now)
            IN  /\ other.outcome = outcome
                /\ outcome = "return" =>
                      /\ other.ret.total_plays = ret.total_plays
                      /\ other.ret.total_likes = ret.total_likes

\* An enrichment with a Spotify result and plays from the other platforms.
C6_Witness ==
    /\ Enriched
    /\ ret.platform_data.spotify.kind = "some"
    /\ ret.platform_data.spotify.v.popularity = 80
    /\ ret.total_plays > 0
    /\ ret.total_likes > 0

\* C7: a cross-platform search in which the SoundCloud request fails and
\* the search with the same Spotify and YouTube responses in which it
\* succeeds have identical Spotify and YouTube slots.
C7_SoundCloudFailureIsLocal ==
    (op = "cross_platform_search" /\ env["soundcloud.tracks"] # NotAsked)
    => \A x \in IF env["soundcloud.tracks"].kind = "ok"
                THEN {Failed}
                ELSE SoundCloudSearchResponses \ {Failed} :
           LET other == cross_platform_search(spotify, soundcloud, youtube,
                                              arg.artist, arg.title,
                                              [env EXCEPT !["soundcloud.tracks"] = x])
           IN  /\ other.ret.spotify = ret.spotify
               /\ other.ret.youtube = ret.youtube

\* A search whose SoundCloud request failed while Spotify and YouTube
\* answered with results.
C7_Witness ==
    /\ op = "cross_platform_search"
    /\ env["soundcloud.tracks"] = Failed
    /\ ret.soundcloud = <<>>
    /\ ret.spotify.kind = "some"
    /\ ret.youtube # <<>>

\* C8: the platform_count enrich_track_data produces is the number of
\* platforms whose search returned at least one result, so it lies in 0..3,
\* and it is 3 when Spotify, SoundCloud and YouTube return 1, 3 and 2
\* results.
C8_PlatformCount ==
    Enriched =>
        /\ ret.platform_count = Cardinality(PlatformsFound(ret.platform_data))
        /\ ret.platform_count \in 0..3
        /\ (/\ ret.platform_data.spotify.kind = "some"
            /\ Len(ret.platform_data.soundcloud) = 3
            /\ Len(ret.platform_data.youtube) = 2) => ret.platform_count = 3

\* The enrichment over 1, 3 and 2 results.
C8_Witness ==
    /\ Enriched
    /\ ret.platform_data.spotify.kind = "some"
    /\ Len(ret.platform_data.soundcloud) = 3
    /\ Len(ret.platform_data.youtube) = 2
    /\ ret.platform_count = 3

\* C9: the total_plays enrich_track_data produces is the play count of the
\* first SoundCloud result plus the view count of the first YouTube result,
\* total_likes is the sum of their like counts; later results add nothing
\* and a platform without a result adds 0.
C9_TotalsOfFirstResults ==
    Enriched =>
        /\ ret.total_plays =
              FirstCounter(ret.platform_data.soundcloud, "playback_count")
              + FirstCounter(ret.platform_data.youtube, "view_count")
        /\ ret.total_likes =
              FirstCounter(ret.platform_data.soundcloud, "likes_count")
              + FirstCounter(ret.platform_data.youtube, "like_count")

\* An enrichment over several SoundCloud and YouTube results whose later
\* results carry counters other than the first one's.
C9_Witness ==
    /\ Enriched
    /\ Len(ret.platform_data.soundcloud) > 1
    /\ Len(ret.platform_data.youtube) > 1
    /\ ret.platform_data.soundcloud[2].playback_count
          # ret.platform_data.soundcloud[1].playback_count
    /\ ret.platform_data.youtube[1].view_count.v > 0
    /\ ret.total_plays > ret.platform_data.youtube[1].view_count.v

\* C10: enrich_track_data with non-empty artist and title never raises:
\* whatever the platforms answer, it returns a record that carries
\* platform_count, total_plays and total_likes.  The code fails this: a
\* SoundCloud track whose playback_count or likes_count is null makes the
\* aggregation raise TypeError.
C10_EnrichNeverRaises ==
    Searched =>
        /\ outcome = "return"
        /\ {"platform_count", "total_plays", "total_likes"} \subseteq DOMAIN ret

\* The client a method belongs to.
ClientOf(method) ==
    CASE method \in {"search_track", "get_track_details"} -> "spotify"
      [] method \in {"search_tracks", "get_track_by_url"} -> "soundcloud"
      [] OTHER -> "youtube"

\* v is the empty value of method: None, [] or {}.
IsEmptyValue(method, v) ==
    CASE method \in {"search_track", "get_track_details", "get_track_by_url",
                     "get_video_by_url"} -> v = None
      [] method = "get_video_details" -> DOMAIN v = {}
      [] OTHER -> v = <<>>

\* The requests a method makes itself, or a lookup makes through
\* get_video_details.
OwnRequests(method) ==
    CASE method = "search_track" -> {"spotify.search"}
      [] method = "get_track_details" -> {"spotify.track", "spotify.audio_features"}
      [] method = "search_tracks" -> {"soundcloud.tracks"}
      [] method = "get_track_by_url" -> {"soundcloud.resolve"}
      [] method = "search_videos" -> {"youtube.search"}
      [] method = "get_video_details" -> {"youtube.videos.statistics"}
      [] method = "get_video_by_url" -> {"youtube.videos.statistics", "youtube.videos.snippet"}

\* The payload resp of request r lacks a field the code reads by subscript,
\* or holds a null where the code converts a number.
Malformed(r, resp) ==
    CASE r = "spotify.search" ->
            resp.items # <<>> /\ ~(SpotifyItemKeys \subseteq DOMAIN resp.items[1])
      [] r = "spotify.audio_features" -> resp.list = <<>>
      [] r = "soundcloud.tracks" ->
            \E i \in DOMAIN resp.collection :
                ~(SoundCloudTrackKeys \subseteq DOMAIN resp.collection[i])
      [] r = "soundcloud.resolve" -> ~(SoundCloudTrackKeys \subseteq DOMAIN resp.track)
      [] r = "youtube.search" ->
            \E i \in DOMAIN resp.items : ~(YouTubeItemKeys \subseteq DOMAIN resp.items[i])
      [] r = "youtube.videos.statistics" ->
            /\ resp.covers = "all"
            /\ \E k \in {"viewCount", "likeCount"} :
                  k \in DOMAIN resp.statistics /\ resp.statistics[k] = JNull
      [] r = "youtube.videos.snippet" ->
            resp.items # <<>> /\ "title" \notin DOMAIN resp.items[1]
      [] OTHER -> FALSE

\* Request r of the run failed: the call raised, or its payload is malformed.
RequestFailed(r) ==
    \/ env[r].kind = "error"
    \/ env[r].kind = "ok" /\ Malformed(r, env[r])

\* C11: no method of the three clients raises to its caller; when a request
\* of the method fails (network error, non-2xx status) or answers with a
\* malformed payload, the method returns its empty value (None, [] or {}).
C11_ClientsNeverRaise ==
    op \in ClientMethods
    => /\ outcome = "return"
       /\ \A r \in OwnRequests(op) : RequestFailed(r) => IsEmptyValue(op, ret)

\* A SoundCloud lookup whose payload lacks a field the code reads.
C11_Witness ==
    /\ op = "get_track_by_url"
    /\ env["soundcloud.resolve"].kind = "ok"
    /\ Malformed("soundcloud.resolve", env["soundcloud.resolve"])
    /\ ret = None

\* The client of method was constructed without its credential.
WithoutCredential(method) ==
    CASE ClientOf(method) = "spotify" -> ~(spotify.client_id /\ spotify.client_secret)
      [] ClientOf(method) = "soundcloud" -> ~soundcloud.client_id
      [] OTHER -> ~youtube.api_key

\* C12: a method of a client constructed without its credential returns its
\* empty value and issues no outbound request, at every call.
C12_NoCredentialNoRequest ==
    (op \in ClientMethods /\ WithoutCredential(op))
    => /\ outcome = "return"
       /\ IsEmptyValue(op, ret)
       /\ net = <<>>

\* A Spotify search on a client that has a client id and no secret.
C12_Witness ==
    /\ op = "search_track"
    /\ spotify.client_id /\ ~spotify.client_secret
    /\ arg.a[1] # ""

\* The platform a request goes to.
RequestPlatform(r) ==
    CASE r \in {"spotify.search", "spotify.track", "spotify.audio_features"} -> "spotify"
      [] r \in {"soundcloud.tracks", "soundcloud.resolve"} -> "soundcloud"
      [] OTHER -> "youtube"

\* The markers a URL contains, letter case ignored.
MarkersIn(url) ==
    {m \in {MarkerSpotify, MarkerSoundCloud, MarkerYouTube, MarkerYouTuBe} :
        MentionsMarker(url, m)}

\* C13: verify_track_url dispatches a URL to the platform of the first
\* marker it contains (letter case ignored) in the order Spotify,
\* SoundCloud, YouTube, and to no other: every client call and every request
\* of the run goes to that platform, and a SoundCloud or YouTube URL always
\* reaches its lookup.
C13_FirstMarkerDecides ==
    op = "verify_track_url"
    => /\ \A i \in DOMAIN calls : calls[i].client = PlatformOf(arg.url)
       /\ \A i \in DOMAIN net : RequestPlatform(net[i].req) = PlatformOf(arg.url)
       /\ PlatformOf(arg.url) \in {"soundcloud", "youtube"} => calls # <<>>

\* A URL with a YouTube host and the SoundCloud marker in its query string,
\* looked up at SoundCloud.
C13_Witness ==
    /\ op = "verify_track_url"
    /\ {MarkerYouTube, MarkerSoundCloud} \subseteq MarkersIn(arg.url)
    /\ calls # <<>>
    /\ calls[1].client = "soundcloud"
    /\ net # <<>>

\* C14: one verify_track_url call makes at most one client call; its
\* requests all go to one platform and none is sent twice, also when the
\* lookup fails or finds nothing.
C14_OneLookupNoFallback ==
    op = "verify_track_url"
    => /\ Len(calls) <= 1
       /\ \A i, j \in DOMAIN net :
             /\ RequestPlatform(net[i].req) = RequestPlatform(net[j].req)
             /\ net[i].req = net[j].req => i = j

\* A lookup whose first request failed: one call, None returned.
C14_Witness ==
    /\ op = "verify_track_url"
    /\ Len(calls) = 1
    /\ net # <<>>
    /\ env[net[1].req].kind = "error"
    /\ ret = None

\* C15: for a YouTube URL that carries a video id, the id verify_track_url
\* looks up is the id as written in the original URL (letter case kept).
\* The code fails this: it extracts the id from the lower-cased URL.
C15_VideoIdAsWritten ==
    (/\ op = "verify_track_url"
     /\ PlatformOf(arg.url) = "youtube"
     /\ extract_video_id(arg.url).kind = "some"
     /\ youtube.api_key)
    => /\ net # <<>>
       /\ net[1] = Request("youtube.videos.statistics", extract_video_id(arg.url).v)

\* C16: for a Spotify URL that contains no 'track/<id>' segment with an
\* alphanumeric id, verify_track_url returns None and calls no client.  The
\* code fails this for a segment written 'Track/': the pattern is applied to
\* the lower-cased URL.
C16_NoTrackSegmentNoLookup ==
    (/\ op = "verify_track_url"
     /\ PlatformOf(arg.url) = "spotify"
     /\ SpotifyIdSearch(arg.url).kind = "none")
    => (ret = None /\ calls = <<>> /\ net = <<>>)

\* C17: extract_video_id tries the shapes 'v=', '/embed/', '/v/' in this
\* order and returns the 11 characters that follow the marker of the first
\* shape that matches; in particular, for a URL in which 'v=' is followed
\* by 11 id characters it returns these.  The code fails this: its first
\* pattern also accepts a bare '/' before the id, and a path segment of 11
\* or more id characters to the left of 'v=' is returned instead.
C17_QueryShapeFirst ==
    (/\ op = "extract_video_id"
     /\ VideoIdSearch(arg.a, <<VEquals>>).kind = "some")
    => ret = VideoIdSearch(arg.a, <<VEquals>>)

\* C18: a successful enrich_track_data call leaves the caller's record as
\* it was passed and returns a dict of its own.  The code fails this: it
\* updates the caller's dict in place and returns that same dict.
C18_InputLeftUnmodified ==
    Enriched => track_data = arg.track_data

\* The orders in which the three slots can come to be filled.
Orders ==
    {o \in [1..3 -> {"spotify", "soundcloud", "youtube"}] :
        \A i, j \in 1..3 : o[i] = o[j] => i = j}

\* The three slots the search of the run gives under its responses.
SlotsOfRun ==
    cross_platform_search(spotify, soundcloud, youtube,
                          arg.track_data.artist, arg.track_data.title, env).ret

\* C19: the aggregates of an enrichment are the same for every order in
\* which the three platforms' slots are filled and visited: each order gives
\* the platform_count, total_plays and total_likes the call returned, and an
\* order raises exactly when the call raised.
C19_AggregatesIgnoreOrder ==
    Searched =>
        \A o \in Orders :
            /\ AggregateIn(o, SlotsOfRun).ok = (outcome = "return")
            /\ outcome = "return" =>
                  /\ AggregateIn(o, SlotsOfRun).platform_count = ret.platform_count
                  /\ AggregateIn(o, SlotsOfRun).total_plays = ret.total_plays
                  /\ AggregateIn(o, SlotsOfRun).total_likes = ret.total_likes

\* An enrichment with results of all three platforms and different counters
\* at SoundCloud and YouTube.
C19_Witness ==
    /\ Enriched
    /\ ret.platform_count = 3
    /\ ret.platform_data.soundcloud[1].playback_count
          # ret.platform_data.youtube[1].view_count

\* C20: every outbound request an enrichment causes carries an explicit
\* timeout.  The code fails this for the Spotify search, which is made
\* through the spotipy client with no timeout given.
C20_EveryRequestHasTimeout ==
    Searched => \A i \in DOMAIN net : RequestTimeout(net[i].req).kind = "some"

\* The position of a platform in the order of the searches.
PlatformRank(platform) ==
    CASE platform = "spotify" -> 1
      [] platform = "soundcloud" -> 2
      [] OTHER -> 3

\* C21: one cross_platform_search call calls the search of Spotify, of
\* SoundCloud and of YouTube once each, in this order; the requests of one
\* platform are all sent before those of the next, and no request is sent
\* twice, whatever failed.
C21_EachSearchOnceInOrder ==
    op = "cross_platform_search"
    => /\ calls = <<Call("spotify", "search_track", <<arg.artist, arg.title>>),
                    Call("soundcloud", "search_tracks", Query(arg.artist, arg.title)),
                    Call("youtube", "search_videos", Query(arg.artist, arg.title))>>
       /\ \A i, j \in DOMAIN net :
             /\ i < j => PlatformRank(RequestPlatform(net[i].req))
                            <= PlatformRank(RequestPlatform(net[j].req))
             /\ net[i].req = net[j].req => i = j

\* A search on a fully configured service in which the Spotify and the
\* SoundCloud request failed.
C21_Witness ==
    /\ op = "cross_platform_search"
    /\ env["spotify.search"].kind = "error"
    /\ env["soundcloud.tracks"].kind = "error"
    /\ Len(net) >= 3

\* The search request of the run answered with well-formed items and the
\* statistics request that followed it failed.
StatisticsFailed ==
    /\ env["youtube.search"].kind = "ok"
    /\ env["youtube.search"].items # <<>>
    /\ ~Malformed("youtube.search", env["youtube.search"])
    /\ env["youtube.videos.statistics"].kind = "error"

\* C30: when the YouTube search succeeds and the statistics request fails,
\* the YouTube slot of an enrichment holds one entry per search item, each
\* with view_count, like_count and comment_count 0; a call that returns
\* counts YouTube in platform_count and has the totals of the SoundCloud
\* slot alone.
C30_StatisticsFailureGivesZeros ==
    (Searched /\ StatisticsFailed)
    => /\ Len(SlotsOfRun.youtube) = Len(env["youtube.search"].items)
       /\ \A i \in DOMAIN SlotsOfRun.youtube :
             /\ SlotsOfRun.youtube[i].id = env["youtube.search"].items[i].videoId
             /\ SlotsOfRun.youtube[i].view_count = JInt(0)
             /\ SlotsOfRun.youtube[i].like_count = JInt(0)
             /\ SlotsOfRun.youtube[i].comment_count = JInt(0)
       /\ outcome = "return" =>
             /\ "youtube" \in PlatformsFound(ret.platform_data)
             /\ ret.platform_count
                   = Cardinality(PlatformsFound(ret.platform_data) \ {"youtube"}) + 1
             /\ ret.total_plays = FirstCounter(ret.platform_data.soundcloud, "playback_count")
             /\ ret.total_likes = FirstCounter(ret.platform_data.soundcloud, "likes_count")

\* An enrichment that returned with two YouTube items without statistics
\* and a SoundCloud result.
C30_Witness ==
    /\ Enriched
    /\ StatisticsFailed
    /\ Len(env["youtube.search"].items) = 2
    /\ ret.platform_data.soundcloud # <<>>

(***************************************************************************)
(* Notions of the application's properties.                                *)
(***************************************************************************)
\* Worker w takes a request of handler in this step.
Takes(w, handler) ==
    /\ Free(w)
    /\ reqs'[w] # reqs[w]
    /\ reqs'[w].handler = handler
\* Worker w's request of handler gets its answer in this step.
Answers_(w, handler) ==
    /\ reqs'[w] # reqs[w]
    /\ reqs'[w].handler = handler
    /\ reqs'[w].pc = "done"
\* The number of Vote rows of user uid on track tid.
VoteRows(vs, uid, tid) ==
    BagCardinality([row \in VotesOf(vs, uid, tid) |-> vs[row]])
\* The Vote rows on track tid.
VotesOn(vs, tid) == {row \in BagToSet(vs) : row.track_id = tid}
RECURSIVE SumOverall(_, _)
SumOverall(vs, rows) ==
    IF rows = {} THEN Rat(0, 1)
    ELSE LET row == CHOOSE x \in rows : TRUE
         IN RatAdd(Rat(row.overall.num * vs[row], row.overall.den),
                   SumOverall(vs, rows \ {row}))
\* The track and user columns a vote changes.
VoteColumns ==
    <<[t \in DOMAIN tracks |->
          <<tracks[t].vote_count, tracks[t].total_score, tracks[t].score>>],
      [u \in DOMAIN users |-> <<users[u].votes_count, users[u].trust_score>>]>>
\* Worker w's request is a vote on a track by a user who has a vote on it.
VotesAgain(r) ==
    /\ r.handler = "vote_track"
    /\ r.body
    /\ r.data.track_id.kind = "id"
    /\ VotesOf(votes, r.header.token.user_id, r.data.track_id.id) # {}

\* C22: there is never more than one Vote row of a user on a track; a vote
\* by a user who has a vote on the track when the handler looks for it is
\* answered 400, and a vote that finds the user's vote only at its commit is
\* rolled back: either way the votes and the track's vote_count, total_score
\* and score and the user's votes_count and trust_score stay as they were.
C22_OneVotePerUserAndTrack ==
    /\ [](\A u \in DOMAIN users, t \in DOMAIN tracks : VoteRows(votes, u, t) <= 1)
    /\ [][\A w \in Workers :
            /\ Takes(w, "vote_track") /\ VotesAgain(reqs'[w])
                  => /\ reqs'[w].pc = "done"
                     /\ reqs'[w].status = 400
                     /\ UNCHANGED <<votes, VoteColumns>>
            /\ AtCommit(w, "vote_track") /\ Answers_(w, "vote_track")
                  /\ VotesAgain(reqs[w])
                  => UNCHANGED <<votes, VoteColumns>>]_vars
\* A vote by a user who has a vote on the track has been answered 400.
C22_Witness ==
    \E w \in Workers :
        /\ reqs[w].pc = "done"
        /\ reqs[w].status = 400
        /\ VotesAgain(reqs[w])
        /\ VoteRows(votes, reqs[w].header.token.user_id, reqs[w].data.track_id.id) = 1

\* C23: each track's vote_count is the number of its Vote rows, its
\* total_score the sum of their overall scores and its score their quotient.
C23_TrackStatsMatchVotes ==
    \A t \in DOMAIN tracks :
        /\ tracks[t].vote_count = BagCardinality([row \in VotesOn(votes, t) |-> votes[row]])
        /\ RatEq(tracks[t].total_score, SumOverall(votes, VotesOn(votes, t)))
        /\ tracks[t].vote_count > 0
              => RatEq(tracks[t].score, RatDiv(tracks[t].total_score, tracks[t].vote_count))

\* C24: no two Track rows, submitted by different users, have the same
\* title and artist.
C24_NoTwoTracksOfOneName ==
    \A i \in DOMAIN tracks, j \in DOMAIN tracks :
        /\ tracks[i].title = tracks[j].title
        /\ tracks[i].artist = tracks[j].artist
        /\ tracks[i].submitted_by # tracks[j].submitted_by
        => i = j

\* A registration that lacks one of its three fields.
Lacking(data) == \E k \in RegisterFields : k \notin DOMAIN data \/ data[k] = ""
\* A registration under a username or an email some user has.
Reusing(data) ==
    \E u \in DOMAIN users :
        \/ "username" \in DOMAIN data /\ users[u].username = data.username
        \/ "email" \in DOMAIN data /\ users[u].email = data.email

\* C25: no two users share a username or an email; a registration that lacks
\* a field, or whose username or email some user has when the handler looks
\* for it, is answered 400 and creates no user; one that finds them taken
\* only at its commit creates no user either.
C25_UsersStayUnique ==
    /\ [](\A u \in DOMAIN users, v \in DOMAIN users :
             users[u].username = users[v].username \/ users[u].email = users[v].email
                => u = v)
    /\ [][\A w \in Workers :
            /\ Takes(w, "register") /\ (Lacking(reqs'[w].data) \/ Reusing(reqs'[w].data))
                  => /\ reqs'[w].pc = "done"
                     /\ reqs'[w].status = 400
                     /\ UNCHANGED users
            /\ AtCommit(w, "register") /\ Answers_(w, "register") /\ Reusing(reqs[w].data)
                  => UNCHANGED users]_vars
\* A registration under a new username and another user's email has been
\* answered 400.
C25_Witness ==
    \E w \in Workers :
        /\ reqs[w].pc = "done"
        /\ reqs[w].handler = "register"
        /\ reqs[w].status = 400
        /\ ~Lacking(reqs[w].data)
        /\ \A u \in DOMAIN users : users[u].username # reqs[w].data.username
        /\ \E u \in DOMAIN users : users[u].email = reqs[w].data.email

\* The handlers wrapped by token_required.
Wrapped == {"validate_token", "submit_track", "vote_track", "add_comment",
            "get_user_stats"}
\* At time t, header carries a token signed with the application's secret,
\* not expired, that names a user.
Authentic(header, t) ==
    /\ header.kind = "present"
    /\ header.token.secret = AppSecret
    /\ header.token.exp > t
    /\ header.token.user_id \in DOMAIN users

\* C26: a request to a wrapped handler gets past token_required, to an answer
\* other than 401 or to its commit, only with a token that is signed with the
\* application's secret, has not expired and names a user; any other request
\* is answered 401 and changes no table.
C26_BodyOnlyWithValidToken ==
    /\ [](\A w \in Workers :
             /\ reqs[w].pc # "idle"
             /\ reqs[w].handler \in Wrapped
             /\ reqs[w].status # 401
             => Authentic(reqs[w].header, reqs[w].at))
    /\ [][\A w \in Workers, h \in Wrapped :
            Takes(w, h) /\ ~Authentic(reqs'[w].header, clock)
                => /\ reqs'[w].pc = "done"
                   /\ reqs'[w].status = 401
                   /\ UNCHANGED database]_vars
\* A request with the token of a user, signed by the application and expired,
\* has been answered 401.
C26_Witness ==
    \E w \in Workers :
        /\ reqs[w].pc = "done"
        /\ reqs[w].handler \in Wrapped
        /\ reqs[w].status = 401
        /\ reqs[w].header.kind = "present"
        /\ reqs[w].header.token.secret = AppSecret
        /\ reqs[w].header.token.user_id \in DOMAIN users
        /\ reqs[w].header.token.exp <= reqs[w].at

\* The rows of the cache under key.
RowsOf(c, key) == {row \in c : row.key = key}

\* C27: get_cached(key) returns a value only from a row that expires later
\* than now, and for a row that does not it returns None and deletes the row;
\* a set_cached call leaves one row under its key, with the value it was given
\* and expiring ttl_seconds after the call; no key ever has two rows.
C27_CacheReturnsOnlyFreshRows ==
    /\ [](\A row \in api_cache : RowsOf(api_cache, row.key) = {row})
    /\ [][\A w \in Workers :
            /\ Takes(w, "get_cached") =>
                  /\ reqs'[w].result # None =>
                        \E row \in RowsOf(api_cache, reqs'[w].data.key) :
                            /\ row.expires_at > clock
                            /\ row.value = Dumps(reqs'[w].result.v)
                  /\ \A row \in RowsOf(api_cache, reqs'[w].data.key) :
                        row.expires_at <= clock =>
                            /\ reqs'[w].result = None
                            /\ RowsOf(api_cache', reqs'[w].data.key) = {}
            /\ Takes(w, "set_cached") =>
                  RowsOf(api_cache', reqs'[w].data.key) =
                      {CacheRow(reqs'[w].data.key, Dumps(reqs'[w].data.value),
                                clock + reqs'[w].data.ttl_seconds)}]_vars
\* get_cached has run at the very second the row that set_cached wrote under
\* its key expired: it returned None and the row is gone.
C27_Witness ==
    \E w \in Workers, v \in Workers :
        /\ reqs[w].pc = "done"
        /\ reqs[w].handler = "get_cached"
        /\ reqs[v].pc = "done"
        /\ reqs[v].handler = "set_cached"
        /\ reqs[v].data.key = reqs[w].data.key
        /\ reqs[v].data.value # <<>>
        /\ reqs[w].at = reqs[v].at + reqs[v].data.ttl_seconds
        /\ reqs[w].result = None
        /\ RowsOf(api_cache, reqs[w].data.key) = {}

\* The cache key of a listing request.
KeyOf(r) ==
    IF r.handler = "get_trending_tracks" THEN CacheKey("trending", "", r.data.limit)
    ELSE CacheKey("top", r.data.period, r.data.limit)

\* C28: a listing request that finds an unexpired row under its cache key,
\* written by an earlier request with its parameters less than 300 seconds
\* ago, is answered without listing the tracks table again.
C28_RepeatedListingFromCache ==
    [][\A w \in Workers, h \in {"get_trending_tracks", "get_top_tracks"} :
          /\ Takes(w, h)
          /\ \E row \in RowsOf(api_cache, KeyOf(reqs'[w])) : row.expires_at > clock
          => ~reqs'[w].listed]_vars

\* C29: the list get_youtube_trending returns holds no video id twice.
C29_EachVideoOnce ==
    \A w \in Workers :
        /\ reqs[w].pc = "done"
        /\ reqs[w].handler = "get_youtube_trending"
        /\ reqs[w].status = 200
        => \A i \in DOMAIN reqs[w].result.v, j \in DOMAIN reqs[w].result.v :
              reqs[w].result.v[i].id = reqs[w].result.v[j].id => i = j

=============================================================================
